---------------------------- MODULE Spec2Model ----------------------------
(***************************************************************************)
(* A model of the jyrobot sensor and rendering core: the Color value type  *)
(* (utils.py), the World registry of robots and walls (world.py), the      *)
(* raster backend's transform stack (backends/pil.py) and the Camera       *)
(* device (devices/cameras.py).                                            *)
(*                                                                         *)
(* Each component has its own specification over the shared variables:     *)
(*   SpecColor   Color(r,g,b,a) -> to_hexcode -> Color(hex)                *)
(*   SpecWorld   World.add_robot / World.add_wall                          *)
(*   SpecPIL     PILBackend.pushMatrix / translate / rotate / popMatrix    *)
(*   SpecPic     Camera.take_picture as a function of one column's hits    *)
(*   SpecCam     the Camera's life cycle: retuning, ticks, picture requests*)
(*   SpecDraw    World.force_draw: the passes over the walls               *)
(*   SpecLoose   a Camera before its robot is in a world                   *)
(*   SpecVocab   the drawing vocabulary on PILBackend and on SVGBackend    *)
(*   SpecSVG     SVGBackend: styles, shapes, save / restore                *)
(*   SpecSteps   World.steps under interrupt signals                       *)
(*   SpecCtx     Backend as a context manager (with-blocks)                *)
(***************************************************************************)
EXTENDS Integers, Sequences, FiniteSets, TLC

VARIABLES
    \* ---- Color (utils.py)
    cstage,     \* "new" | "color" | "hex" | "parsed"
    cin,        \* the constructor's arguments <<r, g, b, a>>
    ccolor,     \* the Color object built from cin
    chex,       \* its to_hexcode(), a sequence of characters
    cout,       \* the Color built from chex
    \* ---- World (world.py)
    robots,     \* World._robots, a sequence of robot identities
    walls,      \* World.walls, a sequence of Wall records
    rpos,       \* robot identity -> <<x, y>>
    rworld,     \* robot identity -> robot.world ("none" | "world")
    wlast,      \* the last call and what the lists were before it
    \* ---- raster backend (backends/pil.py)
    backend,    \* PILBackend.width, height, _scale
    matrix,     \* PILBackend.matrix, a sequence of frames
    marks,      \* for each open frame, the mapping p at its pushMatrix
    plast,      \* the last backend call
    \* ---- take_picture on one column (devices/cameras.py)
    pin,        \* the inputs: camera settings, world size, the column's hits
    pout,       \* the outcome of take_picture for that column
    \* ---- Camera life cycle (devices/cameras.py)
    cam,        \* the Camera object
    cam2,       \* a second Camera, loaded from the first one's to_json()
    jsons,      \* the to_json() dictionaries taken so far
    scene,      \* what the rays meet: robot pose and world geometry
    wtime,      \* World.time
    clast,      \* the last camera call and its result
    attach,     \* camera.robot and robot.world: "none" | "robot" | "world"
    \* ---- the drawing vocabulary (backends/base.py, pil.py, svg.py)
    vkind,      \* the class of the backend: "pil" | "svg"
    vcalls,     \* the calls made on it, each with the way it ended
    \* ---- vector backend (backends/svg.py)
    svg,        \* the SVGBackend object: stack, scene graph, points, styles
    slast,      \* the last call on it and its result
    \* ---- World.steps and the interrupt signal (world.py)
    sim,        \* the run loop: position, stop flag, SIGINT handler, counts
    \* ---- Backend as a context manager (backends/base.py)
    ctx         \* caching, the values saved at each entry, the flush count

colorVars == <<cstage, cin, ccolor, chex, cout>>
worldVars == <<robots, walls, rpos, rworld, wlast>>
pilVars   == <<backend, matrix, marks, plast>>
picVars   == <<pin, pout>>
camVars   == <<cam, cam2, jsons, scene, wtime, clast, attach>>
vocabVars == <<vkind, vcalls>>
svgVars   == <<svg, slast>>
stepVars  == <<sim>>
ctxVars   == <<ctx>>
vars      == <<colorVars, worldVars, pilVars, picVars, camVars, vocabVars, svgVars,
               stepVars, ctxVars>>

\* What a step of one component leaves alone.
OnlyColor == UNCHANGED <<worldVars, pilVars, picVars, camVars, vocabVars, svgVars, stepVars,
                       ctxVars>>
OnlyWorld == UNCHANGED <<colorVars, pilVars, picVars, camVars, vocabVars, svgVars, stepVars,
                       ctxVars>>
OnlyPil   == UNCHANGED <<colorVars, worldVars, picVars, camVars, vocabVars, svgVars, stepVars,
                       ctxVars>>
OnlyPic   == UNCHANGED <<colorVars, worldVars, pilVars, camVars, vocabVars, svgVars, stepVars,
                       ctxVars>>
OnlyCam   == UNCHANGED <<colorVars, worldVars, pilVars, picVars, vocabVars, svgVars, stepVars,
                       ctxVars>>
OnlyVocab == UNCHANGED <<colorVars, worldVars, pilVars, picVars, camVars, svgVars, stepVars,
                       ctxVars>>
OnlySvg   == UNCHANGED <<colorVars, worldVars, pilVars, picVars, camVars, vocabVars, stepVars,
                       ctxVars>>
OnlySteps == UNCHANGED <<colorVars, worldVars, pilVars, picVars, camVars, vocabVars, svgVars,
                       ctxVars>>
OnlyCtx   == UNCHANGED <<colorVars, worldVars, pilVars, picVars, camVars, vocabVars, svgVars,
                       stepVars>>

\* Python's None where the other values are numbers.
NoneVal == -1

Min(a, b) == IF a <= b THEN a ELSE b
Max(a, b) == IF a >= b THEN a ELSE b

-----------------------------------------------------------------------------
(* utils.py: Color                                                         *)

\* The largest value of a colour channel ("FF").
ByteMax == 255

HexDigits == <<"0", "1", "2", "3", "4", "5", "6", "7",
               "8", "9", "A", "B", "C", "D", "E", "F">>

\* "%X" % n: the hexadecimal digits of n >= 0, most significant first.
RECURSIVE HexStr(_)
HexStr(n) ==
    IF n < 16 THEN <<HexDigits[n + 1]>>
    ELSE HexStr(n \div 16) \o <<HexDigits[(n % 16) + 1]>>

\* "%X" with no minimum width.
FmtX(n) == HexStr(n)

\* "%02X" % n: at least two digits, padded with zeros on the left.
Fmt02X(n) ==
    LET s == HexStr(n) IN IF Len(s) < 2 THEN <<"0">> \o s ELSE s

\* int(s, 16) of a sequence of hexadecimal digits.
RECURSIVE HexInt(_)
HexInt(s) ==
    IF Len(s) = 0 THEN 0
    ELSE LET d == CHOOSE i \in 1..16 : HexDigits[i] = s[Len(s)]
         IN  16 * HexInt(SubSeq(s, 1, Len(s) - 1)) + (d - 1)

\* Python's s[a:b] (0-based, b exclusive, cut at the end of s).
Slice(s, a, b) == SubSeq(s, a + 1, Min(b, Len(s)))

\* Color.hex_to_rgba
hex_to_rgba(hex_string) ==
    LET r_hex == Slice(hex_string, 1, 3)
        g_hex == Slice(hex_string, 3, 5)
        b_hex == Slice(hex_string, 5, 7)
        a_hex == IF Len(hex_string) > 7 THEN Slice(hex_string, 7, 9)
                 ELSE <<"F", "F">>
    IN  <<HexInt(r_hex), HexInt(g_hex), HexInt(b_hex), HexInt(a_hex)>>

\* Color.__init__ once red, green, blue, alpha are numbers or None.
ColorFields(red, green, blue, alpha) ==
    [red   |-> red,
     green |-> IF green # NoneVal THEN green ELSE red,
     blue  |-> IF blue # NoneVal THEN blue ELSE red,
     alpha |-> IF alpha # NoneVal THEN alpha ELSE ByteMax]

\* Color(r, g, b, a) with numbers.
ColorRGBA(red, green, blue, alpha) == ColorFields(red, green, blue, alpha)

\* Color("#...."): the hex branch of Color.__init__.
ColorHex(hex_string) ==
    LET t == hex_to_rgba(hex_string) IN ColorFields(t[1], t[2], t[3], t[4])

\* Color.to_tuple (int() of a whole number is that number).
to_tuple(c) == <<c.red, c.green, c.blue, c.alpha>>

\* to_hexcode with "%X" in place of "%02X".
to_hexcode_nopad(c) ==
    LET t == to_tuple(c)
    IN  <<"#">> \o FmtX(t[1]) \o FmtX(t[2]) \o FmtX(t[3]) \o FmtX(t[4])

\* Color.to_hexcode
to_hexcode(c) ==
    LET t == to_tuple(c)
    IN  <<"#">> \o Fmt02X(t[1]) \o Fmt02X(t[2]) \o Fmt02X(t[3]) \o Fmt02X(t[4])

\* The channel values tried: every red, and a sample of the others.
RedValues == 0..ByteMax
ChannelSample == {0, 9, 16, 255}

NoColor == [red |-> NoneVal, green |-> NoneVal, blue |-> NoneVal, alpha |-> NoneVal]

ColorIdle ==
    /\ cstage = "idle" /\ cin = <<0, 0, 0, 0>> /\ ccolor = NoColor
    /\ chex = <<>> /\ cout = NoColor

ColorInit ==
    /\ cstage = "new"
    /\ cin \in RedValues \X ChannelSample \X ChannelSample \X ChannelSample
    /\ ccolor = NoColor
    /\ chex = <<>>
    /\ cout = NoColor

\* c = Color(r, g, b, a)
ColorConstruct ==
    /\ cstage = "new"
    /\ ccolor' = ColorRGBA(cin[1], cin[2], cin[3], cin[4])
    /\ cstage' = "color"
    /\ UNCHANGED <<cin, chex, cout>>
    /\ OnlyColor

\* h = c.to_hexcode()
ColorToHex ==
    /\ cstage = "color"
    /\ chex' = to_hexcode(ccolor)
    /\ cstage' = "hex"
    /\ UNCHANGED <<cin, ccolor, cout>>
    /\ OnlyColor

\* c2 = Color(h)
ColorParse ==
    /\ cstage = "hex"
    /\ cout' = ColorHex(chex)
    /\ cstage' = "parsed"
    /\ UNCHANGED <<cin, ccolor, chex>>
    /\ OnlyColor

ColorNext == ColorConstruct \/ ColorToHex \/ ColorParse

-----------------------------------------------------------------------------
(* world.py: World, Wall                                                   *)

\* The robots that exist (objects a caller may hand to add_robot).
NRobots == 2
RobotIds == 1..NRobots

\* The number of add_wall calls explored.
MaxBoxes == 1

\* World.width and World.height of the worlds explored (World.from_json
\* takes them from the configuration).
WorldWidth == 11
WorldHeight == 10

\* Wall.robot of a static wall (Python's None).
NoRobot == 0

Point(x, y) == <<x, y>>
Line(p1, p2) == <<p1, p2>>

\* Wall(color, robot, *lines)
Wall(color, robot, lines) == [color |-> color, robot |-> robot, lines |-> lines]

\* robot.bounding_lines: the robot's footprint, four lines around its position.
BoundingLines(x, y) ==
    LET p1 == Point(x - 1, y - 1)
        p2 == Point(x + 1, y - 1)
        p3 == Point(x + 1, y + 1)
        p4 == Point(x - 1, y + 1)
    IN  <<Line(p1, p2), Line(p2, p3), Line(p3, p4), Line(p4, p1)>>

\* World.add_boundary_walls: four walls of one line each.
BoundaryWalls(boundary_wall) ==
    IF boundary_wall
    THEN LET p1 == Point(0, 0)
             p2 == Point(0, WorldHeight)
             p3 == Point(WorldWidth, WorldHeight)
             p4 == Point(WorldWidth, 0)
         IN  <<Wall("purple", NoRobot, <<Line(p1, p2)>>),
               Wall("purple", NoRobot, <<Line(p2, p3)>>),
               Wall("purple", NoRobot, <<Line(p3, p4)>>),
               Wall("purple", NoRobot, <<Line(p4, p1)>>)>>
    ELSE <<>>

\* "robot not in self._robots"
InRobots(r, list) == \E i \in 1..Len(list) : list[i] = r

NoCall == [op |-> "none", arg |-> 0, known |-> FALSE, printed |-> FALSE,
           robots0 |-> <<>>, walls0 |-> <<>>,
           filled |-> <<>>, stroked |-> <<>>]

WorldIdle ==
    /\ robots = <<>> /\ walls = <<>>
    /\ rpos = <<>> /\ rworld = <<>>
    /\ wlast = NoCall

\* World(): init() then from_json(config) with no walls and no robots in the
\* configuration; the robots are built by the caller, at (0, 0) or elsewhere.
WorldInit ==
    /\ robots = <<>>
    /\ \E bw \in BOOLEAN : walls = BoundaryWalls(bw)
    /\ \E placed \in {{}, RobotIds \ {1}} :
          rpos = [r \in RobotIds |-> IF r \in placed THEN <<3, 0>> ELSE <<0, 0>>]
    /\ rworld = [r \in RobotIds |-> "none"]
    /\ wlast = NoCall

\* World.add_wall(color, x1, y1, x2, y2)
add_wall(color, x1, y1, x2, y2) ==
    LET p1 == Point(x1, y1)
        p2 == Point(x2, y1)
        p3 == Point(x2, y2)
        p4 == Point(x1, y2)
        wall == Wall(color, NoRobot,
                     <<Line(p1, p2), Line(p2, p3), Line(p3, p4), Line(p4, p1)>>)
    IN  /\ walls' = Append(walls, wall)
        /\ wlast' = [op |-> "add_wall", arg |-> 0, known |-> FALSE,
                     printed |-> FALSE, robots0 |-> robots, walls0 |-> walls, filled |-> <<>>,
                        stroked |-> <<>>]
        /\ UNCHANGED <<robots, rpos, rworld>>

\* The number of static boxes in the walls list.
NBoxes == Cardinality({i \in 1..Len(walls) :
                          walls[i].robot = NoRobot /\ Len(walls[i].lines) = 4})

AddWall ==
    /\ OnlyWorld
    /\ NBoxes < MaxBoxes
    /\ \E box \in {<<2, 2, 4, 4>>, <<5, 1, 7, 3>>} :
          add_wall("blue", box[1], box[2], box[3], box[4])

\* add_robot without the "robot not in self._robots" test.
add_robot_unchecked(robot) ==
    \E rx \in 0..(WorldWidth - 10), ry \in 0..(WorldHeight - 10) :
       LET x == IF rpos[robot][1] = 0 THEN rx ELSE rpos[robot][1]
           y == IF rpos[robot][2] = 0 THEN ry ELSE rpos[robot][2]
       IN  /\ rpos' = [rpos EXCEPT ![robot] = <<x, y>>]
           /\ robots' = Append(robots, robot)
           /\ rworld' = [rworld EXCEPT ![robot] = "world"]
           /\ walls' = Append(walls, Wall("red", robot, BoundingLines(x, y)))
           /\ wlast' = [op |-> "add_robot", arg |-> robot,
                        known |-> InRobots(robot, robots), printed |-> FALSE,
                        robots0 |-> robots, walls0 |-> walls, filled |-> <<>>,
                        stroked |-> <<>>]

\* World.add_robot(robot); round(random.random() * n) is any of 0..n.
add_robot(robot) ==
    IF ~InRobots(robot, robots)
    THEN \E rx \in 0..(WorldWidth - 10), ry \in 0..(WorldHeight - 10) :
            LET x == IF rpos[robot][1] = 0 THEN rx ELSE rpos[robot][1]
                y == IF rpos[robot][2] = 0 THEN ry ELSE rpos[robot][2]
            IN  /\ rpos' = [rpos EXCEPT ![robot] = <<x, y>>]
                /\ robots' = Append(robots, robot)
                /\ rworld' = [rworld EXCEPT ![robot] = "world"]
                /\ walls' = Append(walls, Wall("red", robot, BoundingLines(x, y)))
                /\ wlast' = [op |-> "add_robot", arg |-> robot,
                             known |-> FALSE, printed |-> FALSE,
                             robots0 |-> robots, walls0 |-> walls, filled |-> <<>>,
                        stroked |-> <<>>]
    ELSE /\ wlast' = [op |-> "add_robot", arg |-> robot,
                      known |-> TRUE, printed |-> TRUE,
                      robots0 |-> robots, walls0 |-> walls, filled |-> <<>>,
                        stroked |-> <<>>]
         /\ UNCHANGED <<robots, walls, rpos, rworld>>

\* Calls of add_robot are cut off once the list holds this many more entries
\* than there are robots (only a faulty add_robot gets there).
MaxExtra == 1

AddRobot ==
    /\ OnlyWorld
    /\ Len(robots) < NRobots + MaxExtra
    /\ \E r \in RobotIds : add_robot(r)

WorldNext == AddWall \/ AddRobot

\* World.force_draw, "Draw walls": the walls a filled shape is drawn for,
\* in the order of the list, each with the vertices handed to canvas.vertex
\* (p1 and p2 of every line).
FillPass(ws) ==
    LET drawn == SelectSeq([i \in 1..Len(ws) |-> i],
                     LAMBDA i : Len(ws[i].lines) >= 1 /\ ws[i].robot = NoRobot)
    IN  [k \in 1..Len(drawn) |->
            [wall |-> drawn[k], vertices |-> 2 * Len(ws[drawn[k]].lines)]]

\* World.force_draw, "Draw borders": the walls a line of width 3 is stroked
\* for.
BorderPass(ws) ==
    SelectSeq([i \in 1..Len(ws) |-> i], LAMBDA i : Len(ws[i].lines) = 1)

\* World.force_draw(canvas) with a canvas: the two passes over self.walls.
ForceDraw ==
    /\ OnlyWorld
    /\ wlast' = [op |-> "force_draw", arg |-> 0, known |-> FALSE,
                 printed |-> FALSE, robots0 |-> robots, walls0 |-> walls,
                 filled |-> FillPass(walls), stroked |-> BorderPass(walls)]
    /\ UNCHANGED <<robots, walls, rpos, rworld>>

DrawNext == AddWall \/ AddRobot \/ ForceDraw

-----------------------------------------------------------------------------
(* backends/pil.py: PILBackend, the transform stack                        *)

\* The number of frames open at once, and of transforms in one frame.
MaxDepth == 2
MaxFrameOps == 2

\* Angles are whole quarter turns (angle = k * pi / 2), for which the
\* cosine and the sine are whole numbers.
Cos4(k) == CASE k % 4 = 0 -> 1  [] k % 4 = 1 -> 0 [] k % 4 = 2 -> -1 [] OTHER -> 0
Sin4(k) == CASE k % 4 = 0 -> 0  [] k % 4 = 1 -> 1 [] k % 4 = 2 -> 0  [] OTHER -> -1

Translate(x, y) == [op |-> "translate", x |-> x, y |-> y, angle |-> 0]
Rotate(angle)   == [op |-> "rotate", x |-> 0, y |-> 0, angle |-> angle]

\* One transform of PILBackend.p applied to the point pt:
\*   translate: x += t[1]; y += t[2]
\*   rotate:    dist = distance(0, 0, x, y); angle2 = atan2(-x, y)
\*              x = dist * cos(angle2 + angle + pi/2)   = x cos a - y sin a
\*              y = dist * sin(angle2 + angle + pi/2)   = y cos a + x sin a
ApplyTransform(t, pt) ==
    IF t.op = "translate"
    THEN <<pt[1] + t.x, pt[2] + t.y>>
    ELSE <<pt[1] * Cos4(t.angle) - pt[2] * Sin4(t.angle),
           pt[2] * Cos4(t.angle) + pt[1] * Sin4(t.angle)>>

\* "for transform in reversed(matrix)": the last transform of the frame first.
RECURSIVE ApplyFrame(_, _)
ApplyFrame(frame, pt) ==
    IF Len(frame) = 0 THEN pt
    ELSE ApplyFrame(SubSeq(frame, 1, Len(frame) - 1),
                    ApplyTransform(frame[Len(frame)], pt))

\* "for matrix in self.matrix": the frames in the order they were pushed.
RECURSIVE ApplyFrames(_, _)
ApplyFrames(frames, pt) ==
    IF Len(frames) = 0 THEN pt
    ELSE ApplyFrames(Tail(frames), ApplyFrame(Head(frames), pt))

\* PILBackend.p(x, y) for a backend with the transform stack m and scale sc.
p(m, sc, x, y) ==
    LET q == ApplyFrames(m, <<x, y>>) IN <<q[1] * sc, q[2] * sc>>

\* The points whose images are compared (three of them fix an affine map).
TestPoints == {<<0, 0>>, <<1, 0>>, <<0, 1>>, <<2, 3>>}

\* The coordinate mapping in force: p on every test point.
PMap == [pt \in TestPoints |-> p(matrix, backend._scale, pt[1], pt[2])]

NoMap == [pt \in TestPoints |-> <<0, 0>>]

PilIdle ==
    /\ backend = [width |-> 0, height |-> 0, _scale |-> 0]
    /\ matrix = <<>> /\ marks = <<>>
    /\ plast = [op |-> "none", mark |-> NoMap, dropped |-> <<>>,
                 rect |-> <<>>]

\* PILBackend(width, height, scale); initialize() sets matrix = [].
PilInit ==
    /\ \E sc \in {1, 3} :
          backend = [width |-> WorldWidth, height |-> WorldHeight, _scale |-> sc]
    /\ matrix = <<>>
    /\ marks = <<>>
    /\ plast = [op |-> "none", mark |-> NoMap, dropped |-> <<>>,
                 rect |-> <<>>]

\* PILBackend.pushMatrix: self.matrix.append([])
pushMatrix ==
    /\ matrix' = Append(matrix, <<>>)
    /\ marks' = Append(marks, PMap)
    /\ plast' = [op |-> "pushMatrix", mark |-> NoMap, dropped |-> <<>>,
                 rect |-> <<>>]
    /\ UNCHANGED backend

\* PILBackend.popMatrix: self.matrix.pop() (IndexError on an empty list).
popMatrix ==
    IF Len(matrix) > 0
    THEN /\ matrix' = SubSeq(matrix, 1, Len(matrix) - 1)
         /\ marks' = SubSeq(marks, 1, Len(marks) - 1)
         /\ plast' = [op |-> "popMatrix", mark |-> marks[Len(marks)],
                      dropped |-> matrix[Len(matrix)], rect |-> <<>>]
         /\ UNCHANGED backend
    ELSE /\ plast' = [op |-> "IndexError", mark |-> NoMap, dropped |-> <<>>,
                 rect |-> <<>>]
         /\ UNCHANGED <<backend, matrix, marks>>

\* translate that appends to the first frame, matrix[0], not the last.
translate_first(x, y) ==
    IF Len(matrix) > 0
    THEN /\ matrix' = [matrix EXCEPT ![1] = Append(@, Translate(x, y))]
         /\ plast' = [op |-> "translate", mark |-> NoMap, dropped |-> <<>>,
                 rect |-> <<>>]
         /\ UNCHANGED <<backend, marks>>
    ELSE /\ plast' = [op |-> "IndexError", mark |-> NoMap, dropped |-> <<>>,
                 rect |-> <<>>]
         /\ UNCHANGED <<backend, matrix, marks>>

\* PILBackend.translate: self.matrix[-1].append(("translate", x, y))
translate(x, y) ==
    IF Len(matrix) > 0
    THEN /\ matrix' = [matrix EXCEPT ![Len(matrix)] = Append(@, Translate(x, y))]
         /\ plast' = [op |-> "translate", mark |-> NoMap, dropped |-> <<>>,
                 rect |-> <<>>]
         /\ UNCHANGED <<backend, marks>>
    ELSE /\ plast' = [op |-> "IndexError", mark |-> NoMap, dropped |-> <<>>,
                 rect |-> <<>>]
         /\ UNCHANGED <<backend, matrix, marks>>

\* PILBackend.rotate: self.matrix[-1].append(("rotate", angle))
rotate(angle) ==
    IF Len(matrix) > 0
    THEN /\ matrix' = [matrix EXCEPT ![Len(matrix)] = Append(@, Rotate(angle))]
         /\ plast' = [op |-> "rotate", mark |-> NoMap, dropped |-> <<>>,
                 rect |-> <<>>]
         /\ UNCHANGED <<backend, marks>>
    ELSE /\ plast' = [op |-> "IndexError", mark |-> NoMap, dropped |-> <<>>,
                 rect |-> <<>>]
         /\ UNCHANGED <<backend, matrix, marks>>

FrameHasRoom ==
    IF Len(matrix) = 0 THEN TRUE ELSE Len(matrix[Len(matrix)]) < MaxFrameOps

PushMatrix == OnlyPil /\ Len(matrix) < MaxDepth /\ pushMatrix
PopMatrix  == OnlyPil /\ popMatrix
DoTranslate == OnlyPil /\ FrameHasRoom /\ \E d \in {<<2, 1>>} : translate(d[1], d[2])
DoRotate    == OnlyPil /\ FrameHasRoom /\ \E k \in {1, 2} : rotate(k)

\* PILBackend.draw_rect(x, y, width, height): the four corners go through
\* p and the polygon between their images is filled.
draw_rect(x, y, width, height) ==
    <<p(matrix, backend._scale, x, y),
      p(matrix, backend._scale, x + width, y),
      p(matrix, backend._scale, x + width, y + height),
      p(matrix, backend._scale, x, y + height)>>

\* PILBackend.clear: self.draw_rect(0, 0, self.width, self.height)
Clear ==
    /\ OnlyPil
    /\ plast' = [op |-> "clear", mark |-> NoMap, dropped |-> <<>>,
                 rect |-> draw_rect(0, 0, backend.width, backend.height)]
    /\ UNCHANGED <<backend, matrix, marks>>

PilNext == PushMatrix \/ PopMatrix \/ DoTranslate \/ DoRotate \/ Clear

-----------------------------------------------------------------------------
(* devices/cameras.py: Camera.take_picture, the pixels of a picture        *)

(* Numbers that Python holds as floats are exact fractions <<n, d>>, d > 0. *)
(* The distances, sizes and fade factors tried are whole numbers over       *)
(* small denominators.                                                      *)
RLess(a, b) == a[1] * b[2] < b[1] * a[2]
REq(a, b)   == a[1] * b[2] = b[1] * a[2]
RLeq(a, b)  == a[1] * b[2] <= b[1] * a[2]
RZero == <<0, 1>>
ROne  == <<1, 1>>

\* max(min(x, 1.0), 0.0)
Clamp01(x) == IF RLess(ROne, x) THEN ROne ELSE IF RLess(x, RZero) THEN RZero ELSE x

\* min(x, 1.0) alone, the lower clamp forgotten.
ClampTop(x) == IF RLess(ROne, x) THEN ROne ELSE x

\* int(x) of a fraction x >= 0.
Trunc(x) == x[1] \div x[2]

\* Python's round(x) of a fraction x >= 0: to the nearest, halves to even.
Round(x) ==
    LET q == x[1] \div x[2]
        r == x[1] % x[2]
    IN  IF 2 * r > x[2] THEN q + 1
        ELSE IF 2 * r < x[2] THEN q
        ELSE IF q % 2 = 0 THEN q ELSE q + 1

\* max(min(distance / size * fade, 1.0), 0.0): the "1.0 -" forgotten.
FadeRatioRaw(distance, size, fade) ==
    Clamp01(<<distance * fade[1], size * fade[2]>>)

\* max(min(1.0 - distance / size * fade, 1.0), 0.0) without the max.
FadeRatioNoFloor(distance, size, fade) ==
    ClampTop(<<size * fade[2] - distance * fade[1], size * fade[2]>>)

\* max(min(1.0 - distance / size * fade, 1.0), 0.0):
\* s with sizeFadeWithDistance, sc with colorsFadeWithDistance.
FadeRatio(distance, size, fade) ==
    Clamp01(<<size * fade[2] - distance * fade[1], size * fade[2]>>)

\* distance_ratio = max(min(1.0 - distance / size, 1.0), 0.0)
DistanceRatio(distance, size) == Clamp01(<<size - distance, size>>)

\* Color(r, g, b).to_tuple() of three fractions: int() of each, alpha 255.
Pixel3(r, g, b) == <<Trunc(r), Trunc(g), Trunc(b), ByteMax>>
\* Color(v).to_tuple(): green and blue default to red.
Pixel1(v) == <<Trunc(v), Trunc(v), Trunc(v), ByteMax>>

\* A pixel of Image.new("RGBA", size).
Blank == <<0, 0, 0, 0>>

\* HitPixel with the depth picture shaded by sc, like the other two.
HitPixelFaded(type, hit, sc, distance_ratio) ==
    IF type = "color"
    THEN Pixel3(<<hit.color[1] * sc[1], sc[2]>>,
                <<hit.color[2] * sc[1], sc[2]>>,
                <<hit.color[3] * sc[1], sc[2]>>)
    ELSE IF type = "depth"
    THEN Pixel3(<<ByteMax * sc[1], sc[2]>>,
                <<ByteMax * sc[1], sc[2]>>,
                <<ByteMax * sc[1], sc[2]>>)
    ELSE LET sum == hit.color[1] + hit.color[2] + hit.color[3]
         IN  Pixel1(<<sum * sc[1], 3 * sc[2]>>)

\* r, g, b of a hit in a picture of the given type.
HitPixel(type, hit, sc, distance_ratio) ==
    IF type = "color"
    THEN Pixel3(<<hit.color[1] * sc[1], sc[2]>>,
                <<hit.color[2] * sc[1], sc[2]>>,
                <<hit.color[3] * sc[1], sc[2]>>)
    ELSE IF type = "depth"
    THEN Pixel3(<<ByteMax * distance_ratio[1], distance_ratio[2]>>,
                <<ByteMax * distance_ratio[1], distance_ratio[2]>>,
                <<ByteMax * distance_ratio[1], distance_ratio[2]>>)
    ELSE LET sum == hit.color[1] + hit.color[2] + hit.color[3]
         IN  Pixel1(<<sum * sc[1], 3 * sc[2]>>)

\* dist = max(min(abs(j - horizon) / horizon, 1.0), 0.0), horizon = H / 2
RowDist(j, H) ==
    Clamp01(<<IF 2 * j >= H THEN 2 * j - H ELSE H - 2 * j, H>>)

\* The sky and the ground pixel of row j (no ground image: ground_color).
SkyPixel(c, j) ==
    IF c.type = "depth"
    THEN IF c.reflectSky
         THEN Pixel1(<<ByteMax * RowDist(j, c.H)[1], RowDist(j, c.H)[2]>>)
         ELSE Pixel1(RZero)
    ELSE IF c.type = "color" THEN <<0, 0, 128, ByteMax>>
    ELSE Pixel1(<<128, 3>>)

GroundPixel(c, j) ==
    IF c.type = "depth"
    THEN IF c.reflectGround
         THEN Pixel1(<<ByteMax * RowDist(j, c.H)[1], RowDist(j, c.H)[2]>>)
         ELSE Pixel1(RZero)
    ELSE IF c.type = "color" THEN <<0, 128, 0, ByteMax>>
    ELSE Pixel1(<<128, 3>>)

\* hit.height == 1.0 and hit.height < 1.0
\* size = max(self.robot.world.width, self.robot.world.height)
WorldSize(c) == Max(c.width, c.height)

IsWall(hit) == REq(hit.height, ROne)
IsObstacle(hit) == RLess(hit.height, ROne)

\* The first pass of take_picture on one column: the nearest wall hit is the
\* last hit of height 1.0; no such hit, and the column is left as it is.
WallPass(c, hits) ==
    LET ws == SelectSeq(hits, IsWall)
    IN  IF Len(ws) = 0
        THEN [found |-> FALSE, distance |-> 0, s |-> RZero, sc |-> RZero,
              ratio |-> RZero, high |-> RZero,
              pixels |-> [j \in 0..(c.H - 1) |-> Blank]]
        ELSE LET hit == ws[Len(ws)]
                 distance_ratio == DistanceRatio(hit.distance, WorldSize(c))
                 s  == FadeRatio(hit.distance, WorldSize(c), c.sizeFade)
                 sc == FadeRatio(hit.distance, WorldSize(c), c.colorFade)
                 hcolor == HitPixel(c.type, hit, sc, distance_ratio)
                 \* high = (1.0 - s) * H
                 high == <<(s[2] - s[1]) * c.H, s[2]>>
                 \* j < high / 2   and   j < H - high / 2
                 Sky(j) == RLess(<<2 * j, 1>>, high)
                 Hit(j) == RLess(<<2 * j, 1>>, <<2 * c.H * high[2] - high[1], high[2]>>)
             IN  [found |-> TRUE, distance |-> hit.distance, s |-> s, sc |-> sc,
                  ratio |-> distance_ratio, high |-> high,
                  pixels |-> [j \in 0..(c.H - 1) |->
                                 IF Sky(j) THEN SkyPixel(c, j)
                                 ELSE IF Hit(j) THEN hcolor
                                 ELSE GroundPixel(c, j)]]

\* Camera.find_closest_wall: the scan goes over reversed(hits) and returns
\* the distance of the first hit that is not lower than a wall;
\* NoneVal stands for float("inf").
RECURSIVE find_closest_wall(_)
find_closest_wall(hits) ==
    IF Len(hits) = 0 THEN NoneVal
    ELSE IF RLess(hits[Len(hits)].height, ROne)
         THEN find_closest_wall(SubSeq(hits, 1, Len(hits) - 1))
         ELSE hits[Len(hits)].distance

\* "if hit.distance > closest_wall_dist: break": the hits before the first
\* one that lies behind the wall.
RECURSIVE Admitted(_, _)
Admitted(obstacles, closest) ==
    IF Len(obstacles) = 0 THEN <<>>
    ELSE IF closest # NoneVal /\ Head(obstacles).distance > closest THEN <<>>
    ELSE <<Head(obstacles)>> \o Admitted(Tail(obstacles), closest)

\* Band with the rows H - j - round(distance_to), the "- 1" forgotten.
BandFromEdge(c, hit) ==
    LET distance_ratio == DistanceRatio(hit.distance, WorldSize(c))
        s  == FadeRatio(hit.distance, WorldSize(c), c.sizeFade)
        sc == FadeRatio(hit.distance, WorldSize(c), c.colorFade)
        \* distance_to = H / 2 * (1.0 - sc)
        distance_to == <<c.H * (sc[2] - sc[1]), 2 * sc[2]>>
        \* height = round(hit.height * H / 2.0 * s)
        height == Round(<<hit.height[1] * c.H * s[1], hit.height[2] * 2 * s[2]>>)
    IN  [robot |-> hit.robot, distance |-> hit.distance, s |-> s, sc |-> sc,
         height |-> height,
         rows |-> {c.H - j - Round(distance_to) : j \in 0..(height - 1)},
         drawn |-> hit.robot \notin c.sprites,
         pixel |-> HitPixel(c.type, hit, sc, distance_ratio)]

\* The band of one admitted hit: its rows H - j - 1 - round(distance_to),
\* j in range(height), and its colour.
Band(c, hit) ==
    LET distance_ratio == DistanceRatio(hit.distance, WorldSize(c))
        s  == FadeRatio(hit.distance, WorldSize(c), c.sizeFade)
        sc == FadeRatio(hit.distance, WorldSize(c), c.colorFade)
        \* distance_to = H / 2 * (1.0 - sc)
        distance_to == <<c.H * (sc[2] - sc[1]), 2 * sc[2]>>
        \* height = round(hit.height * H / 2.0 * s)
        height == Round(<<hit.height[1] * c.H * s[1], hit.height[2] * 2 * s[2]>>)
    IN  [robot |-> hit.robot, distance |-> hit.distance, s |-> s, sc |-> sc,
         height |-> height,
         rows |-> {c.H - j - 1 - Round(distance_to) : j \in 0..(height - 1)},
         drawn |-> hit.robot \notin c.sprites,
         pixel |-> HitPixel(c.type, hit, sc, distance_ratio)]

\* The second pass on one column: the bands of the admitted hits, in the
\* order of the hit sequence.
ObstaclePass(c, hits) ==
    LET closest_wall_dist == find_closest_wall(hits)
        obstacles == SelectSeq(hits, IsObstacle)
        adm == Admitted(obstacles, closest_wall_dist)
    IN  [k \in 1..Len(adm) |-> Band(c, adm[k])]

\* pic_pixels[i, row] = v (a negative row counts from the bottom edge; a row
\* outside the picture is an IndexError and writes nothing).
RECURSIVE PaintBands(_, _, _)
PaintBands(pixels, bands, H) ==
    IF Len(bands) = 0 THEN pixels
    ELSE LET b == Head(bands)
             at(j) == \/ j \in b.rows
                      \/ (j - H) \in b.rows
         IN  PaintBands([j \in DOMAIN pixels |->
                            IF b.drawn /\ at(j) THEN b.pixel ELSE pixels[j]],
                        Tail(bands), H)

\* take_picture on one column.
Column(c, hits) ==
    LET w == WallPass(c, hits)
        bands == ObstaclePass(c, hits)
    IN  [wall |-> [found |-> w.found, distance |-> w.distance, s |-> w.s,
                   sc |-> w.sc, ratio |-> w.ratio, high |-> w.high],
         bands |-> bands,
         pixels |-> PaintBands(w.pixels, bands, c.H)]

\* Camera.take_picture(type) on the stored hits, column by column.
take_picture(c, hits) == [i \in 1..Len(hits) |-> Column(c, hits[i])]

\* The farthest distance of a hit tried.
MaxDist == 5
Distances == 0..MaxDist

\* RayHit of a wall and of another robot (robot 1 is low, robot 2 is tall).
WallHit(d) ==
    [distance |-> d, height |-> ROne, color |-> <<128, 0, 128>>, robot |-> NoRobot]
RobotHit(r, d) ==
    [distance |-> d, height |-> IF r = 1 THEN <<1, 4>> ELSE <<3, 4>>,
     color |-> <<255, 0, 0>>, robot |-> r]

PicRobots == {1, 2}
HitSet == {WallHit(d) : d \in Distances}
          \cup {RobotHit(r, d) : r \in PicRobots, d \in Distances}

\* The hit sequences of one column: farthest hit first, nearest hit last (the
\* order find_closest_wall and the wall pass read them in), at most two
\* walls and each robot at most once, no two hits at the same distance.
IsColumn(h) ==
    /\ \A i \in 1..(Len(h) - 1) : h[i].distance > h[i + 1].distance
    /\ \A r \in PicRobots : Cardinality({i \in 1..Len(h) : h[i].robot = r}) <= 1
    /\ Cardinality({i \in 1..Len(h) : h[i].robot = NoRobot}) <= 2

Columns == {h \in UNION {[1..n -> HitSet] : n \in 0..4} : IsColumn(h)}

\* The pictures taken: one column of any hits, or two columns that each see
\* at most a wall.
WallOnly == {<<>>} \cup {<<WallHit(d)>> : d \in Distances}
HitBuffers == {<<h>> : h \in Columns}
              \cup {<<h1, h2>> : h1 \in WallOnly, h2 \in WallOnly}

FadeFactors == {<<0, 1>>, <<1, 2>>, <<1, 1>>}

\* The camera and world settings take_picture reads: cameraShape[1], the
\* fade factors, the reflect flags, the picture type, world.width and
\* world.height, and the robots that have a sprite image.
PicSettings ==
    [H : {4, 6},
     width : {4},
     height : {3},
     sizeFade : FadeFactors,
     colorFade : FadeFactors,
     type : {"color", "depth", "gray"},
     reflectSky : BOOLEAN,
     reflectGround : BOOLEAN,
     sprites : {{}, {2}}]

\* Camera() has reflectGround = True and reflectSky = False; the other
\* combinations are tried for depth pictures without sprites.
IsPicSetting(c) ==
    /\ (c.type # "depth" \/ c.sprites # {}) => (c.reflectGround /\ ~c.reflectSky)
    /\ c.reflectSky => ~c.reflectGround

NoSettings ==
    [H |-> 0, width |-> 0, height |-> 0, sizeFade |-> RZero, colorFade |-> RZero, type |-> "none",
     reflectSky |-> FALSE, reflectGround |-> FALSE, sprites |-> {}]

PicIdle ==
    /\ pin = [c |-> NoSettings, hits |-> <<>>]
    /\ pout = <<>>

PicInit ==
    /\ \E c \in PicSettings, h \in HitBuffers :
          /\ IsPicSetting(c)
          /\ pin = [c |-> c, hits |-> h]
    /\ pout = <<>>

\* pic = camera.take_picture(type), on the hits _update has stored.
TakePicture ==
    /\ pout = <<>>
    /\ pout' = take_picture(pin.c, pin.hits)
    /\ UNCHANGED pin
    /\ OnlyPic

PicNext == TakePicture

-----------------------------------------------------------------------------
(* Python floats of the field of view.  A float is <<m, e>>, the number    *)
(* m * 2^e with a mantissa m of MantBits bits (or m = 0); every operation  *)
(* rounds its exact result to the nearest float, halves to the even        *)
(* mantissa, as IEEE 754 does with 53 bits.                                *)

MantBits == 8

RECURSIVE Pow2(_)
Pow2(n) == IF n = 0 THEN 1 ELSE 2 * Pow2(n - 1)

\* The float nearest to the fraction (n / d) * 2^e, n >= 0, d > 0.
RECURSIVE FlRound(_, _, _)
FlRound(n, d, e) ==
    IF n = 0 THEN <<0, 0>>
    ELSE IF n >= d * Pow2(MantBits) THEN FlRound(n, 2 * d, e + 1)
    ELSE IF n < d * Pow2(MantBits - 1) THEN FlRound(2 * n, d, e - 1)
    ELSE LET m == Round(<<n, d>>)
         IN  IF m = Pow2(MantBits) THEN <<Pow2(MantBits - 1), e + 1>> ELSE <<m, e>>

\* float(n) of a whole number n >= 0.
Fl(n) == FlRound(n, 1, 0)
\* a * b and a / b
FlMul(a, b) == FlRound(a[1] * b[1], 1, a[2] + b[2])
FlDiv(a, b) == FlRound(a[1], b[1], a[2] - b[2])

\* math.pi = 3.14159265... = 3294199 / 2^20, rounded to a float.
FlPi == FlRound(3294199, 1048576, 0)

\* angle * math.pi / 180.0
DegToRad(angle) == FlDiv(FlMul(angle, FlPi), Fl(180))
\* angle * 180 / math.pi
RadToDeg(angle) == FlDiv(FlMul(angle, Fl(180)), FlPi)

-----------------------------------------------------------------------------
(* devices/cameras.py: Camera, its configuration and its hit buffer        *)

\* cameraShape = [256, 128] of Camera.initialize
DefaultWidth == 256
DefaultHeight == 128
\* max_range = 1000, and the range _update hands to cast_ray
DefaultRange == 1000
UpdateRange == 1000

Keys == {"width", "height", "angle", "colorsFadeWithDistance",
         "sizeFadeWithDistance", "reflectGround", "reflectSky", "max_range"}

\* Camera.reset: one empty hit list per column
reset(c) == [c EXCEPT !.hits = [i \in 1..c.cameraShape[1] |-> <<>>]]

\* Camera.set_fov(angle), angle a float in degrees
set_fov(c, angle) == reset([c EXCEPT !.angle = DegToRad(angle)])

\* Camera.set_size(width, height)
set_size(c, width, height) == reset([c EXCEPT !.cameraShape = <<width, height>>])

\* Camera.initialize, the robot aside
initialize ==
    reset(set_fov([cameraShape |-> <<DefaultWidth, DefaultHeight>>,
                   max_range |-> DefaultRange,
                   colorsFadeWithDistance |-> <<1, 2>>,
                   sizeFadeWithDistance |-> <<1, 1>>,
                   reflectGround |-> TRUE,
                   reflectSky |-> FALSE,
                   angle |-> <<0, 0>>,
                   time |-> 0,
                   hits |-> <<>>], Fl(60)))

\* Camera.from_json(config): config.keys are the options the dictionary
\* holds, the other fields of config are not read.
from_json(c, config) ==
    LET has(k) == k \in config.keys
        c1 == [c EXCEPT
                 !.cameraShape =
                     <<IF has("width") THEN config.width ELSE @[1],
                       IF has("height") THEN config.height ELSE @[2]>>,
                 !.colorsFadeWithDistance =
                     IF has("colorsFadeWithDistance")
                     THEN config.colorsFadeWithDistance ELSE @,
                 !.sizeFadeWithDistance =
                     IF has("sizeFadeWithDistance")
                     THEN config.sizeFadeWithDistance ELSE @,
                 !.reflectGround =
                     IF has("reflectGround") THEN config.reflectGround ELSE @,
                 !.reflectSky =
                     IF has("reflectSky") THEN config.reflectSky ELSE @]
        c2 == IF has("angle") THEN set_fov(c1, config.angle) ELSE c1
    IN  [c2 EXCEPT !.max_range = IF has("max_range") THEN config.max_range ELSE @]

\* to_json that writes the stored angle (radians) as it is.
to_json_radians(c) ==
    [keys |-> Keys,
     class |-> "Camera",
     width |-> c.cameraShape[1],
     height |-> c.cameraShape[2],
     colorsFadeWithDistance |-> c.colorsFadeWithDistance,
     sizeFadeWithDistance |-> c.sizeFadeWithDistance,
     reflectGround |-> c.reflectGround,
     reflectSky |-> c.reflectSky,
     angle |-> c.angle,
     max_range |-> c.max_range]

\* Camera.to_json
to_json(c) ==
    [keys |-> Keys,
     class |-> "Camera",
     width |-> c.cameraShape[1],
     height |-> c.cameraShape[2],
     colorsFadeWithDistance |-> c.colorsFadeWithDistance,
     sizeFadeWithDistance |-> c.sizeFadeWithDistance,
     reflectGround |-> c.reflectGround,
     reflectSky |-> c.reflectSky,
     angle |-> RadToDeg(c.angle),
     max_range |-> c.max_range]

\* Camera(width, height, angle, ...): initialize() and from_json of a
\* dictionary that holds every option.
Camera(width, height, angle, colorsFade, sizeFade, reflectGround, reflectSky, max_range) ==
    from_json(initialize,
              [keys |-> Keys, class |-> "Camera", width |-> width, height |-> height,
               colorsFadeWithDistance |-> colorsFade,
               sizeFadeWithDistance |-> sizeFade,
               reflectGround |-> reflectGround, reflectSky |-> reflectSky,
               angle |-> angle, max_range |-> max_range])

\* Camera() with the defaults of __init__
DefaultCamera ==
    Camera(DefaultWidth, DefaultHeight, Fl(60), <<1, 2>>, <<1, 1>>, TRUE, FALSE,
           DefaultRange)

NoCamera ==
    [cameraShape |-> <<0, 0>>, max_range |-> 0,
     colorsFadeWithDistance |-> RZero, sizeFadeWithDistance |-> RZero,
     reflectGround |-> FALSE, reflectSky |-> FALSE, angle |-> <<0, 0>>,
     time |-> 0, hits |-> <<>>]

-----------------------------------------------------------------------------
(* Serializing a Camera and loading it into a fresh one                    *)

\* The largest field of view tried, in degrees.
MaxAngleDeg == 64

JsonInit ==
    /\ \E w \in {1, 2}, h \in {4, 6}, a \in 0..MaxAngleDeg,
          cf \in FadeFactors, sf \in {<<1, 2>>, <<1, 1>>},
          rg \in BOOLEAN, rs \in BOOLEAN, mr \in {3, DefaultRange} :
          /\ cam = Camera(w, h, Fl(a), cf, sf, rg, rs, mr)
          /\ clast = [op |-> "Camera", angle |-> Fl(a)]
    /\ cam2 = NoCamera
    /\ jsons = <<>>
    /\ scene = [x |-> 0, box |-> FALSE]
    /\ wtime = 0
    /\ attach = "none"

\* config = camera.to_json()
Serialize ==
    /\ Len(jsons) = 0
    /\ jsons' = <<to_json(cam)>>
    /\ UNCHANGED <<cam, cam2, scene, wtime, clast, attach>>
    /\ OnlyCam

\* camera2 = Camera(); camera2.from_json(config)
Load ==
    /\ Len(jsons) = 1 /\ cam2 = NoCamera
    /\ cam2' = from_json(DefaultCamera, jsons[1])
    /\ UNCHANGED <<cam, jsons, scene, wtime, clast, attach>>
    /\ OnlyCam

\* config2 = camera2.to_json()
Reserialize ==
    /\ Len(jsons) = 1 /\ cam2 # NoCamera
    /\ jsons' = Append(jsons, to_json(cam2))
    /\ UNCHANGED <<cam, cam2, scene, wtime, clast, attach>>
    /\ OnlyCam

JsonNext == Serialize \/ Load \/ Reserialize

-----------------------------------------------------------------------------
(* The Camera on a robot in a world: ticks, retuning, picture requests     *)

\* The world the camera's robot is in: the robot moves along its heading
\* from x = 0 towards the boundary wall at x = SceneWidth, and add_wall may
\* put a box at x = BoxAt that only column 0 looks at.
SceneWidth == 4
SceneHeight == 3
BoxAt == 2
\* How far the robot drives, and how long the clock runs.
MaxX == 1
MaxTime == 1

\* robot.cast_ray(x, y, angle, max_distance) for column i (0-based): every
\* surface the ray crosses within max_distance, the farthest first.
cast_ray(sc, i, max_distance) ==
    LET boundary == IF SceneWidth - sc.x <= max_distance
                    THEN <<WallHit(SceneWidth - sc.x)>> ELSE <<>>
        box == IF sc.box /\ i = 0 /\ BoxAt - sc.x <= max_distance
               THEN <<WallHit(BoxAt - sc.x)>> ELSE <<>>
    IN  boundary \o box

\* _update that keeps the hits it has when they carry the world's time.
\* (the camera's timestamp used as a cache key)
update_cached(c, sc, time) ==
    IF c.time = time /\ \A i \in 1..Len(c.hits) : c.hits[i] # <<>>
    THEN [cam |-> c, raised |-> c.cameraShape[1] > Len(c.hits)]
    ELSE LET n == Min(c.cameraShape[1], Len(c.hits))
         IN  [cam |-> [c EXCEPT !.time = time,
                                !.hits = [i \in 1..Len(c.hits) |->
                                            IF i <= n THEN cast_ray(sc, i - 1, UpdateRange)
                                            ELSE c.hits[i]]],
              raised |-> c.cameraShape[1] > Len(c.hits)]

\* _update that casts the rays but leaves the timestamp as it was.
update_untimed(c, sc, time) ==
    LET n == Min(c.cameraShape[1], Len(c.hits))
    IN  [cam |-> [c EXCEPT !.hits = [i \in 1..Len(c.hits) |->
                                       IF i <= n THEN cast_ray(sc, i - 1, UpdateRange)
                                       ELSE c.hits[i]]],
         raised |-> c.cameraShape[1] > Len(c.hits)]

\* Camera._update: the timestamp, then hits[i] for i in range(width); an
\* index past the end of the hit list is an IndexError that ends the loop.
\* The camera after the call, and whether the call raised.
_update(c, sc, time) ==
    LET n == Min(c.cameraShape[1], Len(c.hits))
    IN  [cam |-> [c EXCEPT !.time = time,
                           !.hits = [i \in 1..Len(c.hits) |->
                                       IF i <= n THEN cast_ray(sc, i - 1, UpdateRange)
                                       ELSE c.hits[i]]],
         raised |-> c.cameraShape[1] > Len(c.hits)]

\* Camera.update(debug_list): with world.debug unset nothing is done, and
\* with it set two lines are appended to the world's debug list.
update(c) == c

\* What take_picture reads of the camera and the world.
Settings(c, type) ==
    [H |-> c.cameraShape[2], width |-> SceneWidth, height |-> SceneHeight,
     sizeFade |-> c.sizeFadeWithDistance, colorFade |-> c.colorsFadeWithDistance,
     type |-> type, reflectSky |-> c.reflectSky, reflectGround |-> c.reflectGround,
     sprites |-> {}]

\* The columns take_picture reads: self.hits[i] for i in range(width).
Shown(c) == SubSeq(c.hits, 1, c.cameraShape[1])

\* get_point_cloud's loop over the pixels of the depth and the colour
\* picture: a point for every pixel whose depth value is not 255.
PointCloud(depth_pic, color_pic, W, H) ==
    LET px == [n \in 1..(W * H) |-> <<(n - 1) \div H, (n - 1) % H>>]
        far(q) == depth_pic[q[1] + 1].pixels[q[2]][1] # ByteMax
        sel == SelectSeq(px, far)
    IN  [k \in 1..Len(sel) |->
           LET q == sel[k]
           IN  <<W - q[1] - 1, H - q[2] - 1, depth_pic[q[1] + 1].pixels[q[2]][1],
                 color_pic[q[1] + 1].pixels[q[2]][1],
                 color_pic[q[1] + 1].pixels[q[2]][2],
                 color_pic[q[1] + 1].pixels[q[2]][3]>>]

Last(op, result, hits0, at, pics) ==
    [op |-> op, result |-> result, hits0 |-> hits0, at |-> at, pics |-> pics,
     points |-> <<>>]

CamIdle ==
    /\ cam = NoCamera /\ cam2 = NoCamera /\ jsons = <<>>
    /\ scene = [x |-> 0, box |-> FALSE] /\ wtime = 0
    /\ clast = [op |-> "none"]
    /\ attach = "none"

\* camera = Camera(width, height); robot.add_device(camera); world.add_robot(robot)
CamInit ==
    /\ \E w \in {1, 2} :
          cam = Camera(w, 4, Fl(60), <<1, 2>>, <<1, 1>>, TRUE, FALSE, DefaultRange)
    /\ cam2 = NoCamera
    /\ jsons = <<>>
    /\ scene = [x |-> 0, box |-> FALSE]
    /\ wtime = 0
    /\ clast = Last("none", "none", <<>>, [x |-> 0, box |-> FALSE], <<>>)
    /\ attach = "world"

\* camera.set_fov(angle)
SetFov ==
    /\ \E a \in {60, 90} : cam' = set_fov(cam, Fl(a))
    /\ clast' = Last("set_fov", "none", <<>>, scene, <<>>)
    /\ UNCHANGED <<cam2, jsons, scene, wtime, attach>>
    /\ OnlyCam

\* camera.set_size(width, height)
SetSize ==
    /\ \E w \in {1, 2} : cam' = set_size(cam, w, 4)
    /\ clast' = Last("set_size", "none", <<>>, scene, <<>>)
    /\ UNCHANGED <<cam2, jsons, scene, wtime, attach>>
    /\ OnlyCam

\* A max_range shorter than the way to the boundary wall.
ShortRange == SceneWidth - 1

\* The dictionaries handed to from_json: every subset of the options that
\* resize or retune (width, angle, max_range), alone or with all the others.
OtherKeys == Keys \ {"width", "angle", "max_range"}
Configs ==
    {[keys |-> ks \cup rest, class |-> "Camera", width |-> w, height |-> 4,
      colorsFadeWithDistance |-> <<1, 1>>, sizeFadeWithDistance |-> <<1, 1>>,
      reflectGround |-> TRUE, reflectSky |-> FALSE, angle |-> Fl(90),
      max_range |-> ShortRange] :
        ks \in SUBSET {"width", "angle", "max_range"}, rest \in {{}, OtherKeys},
        w \in {1, 2}}

\* camera.from_json(config)
FromJson ==
    /\ \E config \in Configs :
          /\ cam' = from_json(cam, config)
          /\ clast' = Last("from_json", IF "angle" \in config.keys THEN "angle" ELSE "none",
                           <<>>, scene, <<>>)
    /\ UNCHANGED <<cam2, jsons, scene, wtime, attach>>
    /\ OnlyCam

\* World.step: every robot steps, the clock advances, and World.update
\* calls robot.update, which calls camera.update.
Tick ==
    /\ attach = "world"
    /\ wtime < MaxTime
    /\ wtime' = wtime + 1
    /\ \E dx \in {0, 1} :
          /\ scene.x + dx <= MaxX
          /\ scene' = [scene EXCEPT !.x = @ + dx]
    /\ cam' = update(cam)
    /\ clast' = Last("update", "none", cam.hits, scene', <<>>)
    /\ UNCHANGED <<cam2, jsons, attach>>
    /\ OnlyCam

\* World.add_wall: the wall is appended and World.update runs.
AddBox ==
    /\ attach = "world"
    /\ ~scene.box
    /\ scene' = [scene EXCEPT !.box = TRUE]
    /\ cam' = update(cam)
    /\ clast' = Last("update", "none", cam.hits, scene', <<>>)
    /\ UNCHANGED <<cam2, jsons, wtime, attach>>
    /\ OnlyCam

\* "self.robot.world.time" at the head of _update can be read: the camera
\* has a robot and the robot is in a world. With self.robot None, or with
\* robot.world None, the attribute access raises AttributeError before
\* anything is assigned.
HasWorld == attach = "world"

\* camera.take_picture(type)
RequestPicture ==
    /\ \E type \in {"color", "depth", "gray"} :
          IF ~HasWorld
          THEN /\ cam' = cam
               /\ clast' = Last("take_picture", "AttributeError", <<>>, scene, <<>>)
          ELSE LET u == _update(cam, scene, wtime)
               IN  /\ cam' = u.cam
                   /\ clast' =
                         IF u.raised
                         THEN Last("take_picture", "IndexError", <<>>, scene, <<>>)
                         ELSE Last("take_picture", "picture", <<>>, scene,
                                   <<[type |-> type,
                                      cols |-> take_picture(Settings(u.cam, type),
                                                            Shown(u.cam))]>>)
    /\ UNCHANGED <<cam2, jsons, scene, wtime, attach>>
    /\ OnlyCam

\* camera.get_point_cloud(): take_picture("depth"), take_picture("color"),
\* then the points.
RequestPoints ==
    /\ LET u1 == _update(cam, scene, wtime)
           u2 == _update(u1.cam, scene, wtime)
           depth_pic == take_picture(Settings(u1.cam, "depth"), Shown(u1.cam))
           color_pic == take_picture(Settings(u2.cam, "color"), Shown(u2.cam))
       IN  IF ~HasWorld
           THEN /\ cam' = cam
                /\ clast' = Last("get_point_cloud", "AttributeError", <<>>, scene, <<>>)
           ELSE IF u1.raised
           THEN /\ cam' = u1.cam
                /\ clast' = Last("get_point_cloud", "IndexError", <<>>, scene, <<>>)
           ELSE /\ cam' = u2.cam
                /\ clast' = [Last("get_point_cloud", "points", <<>>, scene,
                                  <<[type |-> "depth", cols |-> depth_pic],
                                    [type |-> "color", cols |-> color_pic]>>)
                                EXCEPT !.points =
                                    PointCloud(depth_pic, color_pic,
                                               u2.cam.cameraShape[1],
                                               u2.cam.cameraShape[2])]
    /\ UNCHANGED <<cam2, jsons, scene, wtime, attach>>
    /\ OnlyCam

CamNext ==
    \/ SetFov \/ SetSize \/ FromJson \/ Tick \/ AddBox
    \/ RequestPicture \/ RequestPoints

-----------------------------------------------------------------------------
(* A Camera that is not on a robot, or whose robot is not in a world       *)

\* camera = Camera(width, height), nothing else done with it.
LooseInit ==
    /\ \E w \in {1, 2} :
          cam = Camera(w, 4, Fl(60), <<1, 2>>, <<1, 1>>, TRUE, FALSE, DefaultRange)
    /\ cam2 = NoCamera
    /\ jsons = <<>>
    /\ scene = [x |-> 0, box |-> FALSE]
    /\ wtime = 0
    /\ clast = Last("none", "none", <<>>, [x |-> 0, box |-> FALSE], <<>>)
    /\ attach = "none"

\* robot.add_device(camera): the camera gets its robot; the robot is in no
\* world yet.
AddDevice ==
    /\ attach = "none"
    /\ attach' = "robot"
    /\ clast' = Last("add_device", "none", <<>>, scene, <<>>)
    /\ UNCHANGED <<cam, cam2, jsons, scene, wtime>>
    /\ OnlyCam

\* camera.watch(): the condition is printed and None returned, or a
\* CameraWatcher is built and its widget returned.
Watch ==
    /\ clast' = IF attach # "world"
                THEN Last("watch", "None", <<>>, scene, <<>>)
                ELSE Last("watch", "widget", <<>>, scene, <<>>)
    /\ UNCHANGED <<cam, cam2, jsons, scene, wtime, attach>>
    /\ OnlyCam

LooseNext ==
    \/ SetFov \/ SetSize \/ FromJson \/ AddDevice \/ Watch
    \/ RequestPicture \/ RequestPoints

-----------------------------------------------------------------------------
(* backends: which code a call of the drawing vocabulary runs              *)

\* The steps of a method body that matter for how a call ends: a call of
\* another method of self (always, or on some paths only) and a raise
\* (always, or in some states of the object only).
CallOf(name)    == <<"call", name>>
MayCall(name)   == <<"maycall", name>>
Raise(exc)      == <<"raise", exc>>
MayRaise(exc)   == <<"mayraise", exc>>

\* The methods of Backend whose body is raise NotImplementedError(...).
BaseRaises ==
    {"watch", "flush", "take_picture", "arc", "get_image_data", "clear_rect",
     "fill_text", "fill_rect", "fill", "stroke", "move_to", "line_to", "save",
     "restore", "translate", "scale", "set_transform", "rotate", "begin_path",
     "close_path", "ellipse", "put_image_data", "create_image_data"}

\* The other methods of Backend.
BaseWorks ==
    {"update_dimensions", "set_scale", "set_stroke_style", "set_fill_style",
     "clear", "set_font", "text", "lineWidth", "strokeStyle", "make_stroke",
     "noStroke", "set_fill", "noFill", "draw_line", "pushMatrix", "popMatrix",
     "resetScale", "beginShape", "endShape", "vertex", "draw_rect",
     "draw_ellipse", "draw_arc"}

BaseMethods == BaseRaises \cup BaseWorks

\* The body of a Backend method.
BaseBody(op) ==
    CASE op \in BaseRaises -> <<Raise("NotImplementedError")>>
      [] op = "update_dimensions" -> <<CallOf("resetScale"), CallOf("set_scale")>>
      [] op = "set_scale" -> <<CallOf("scale")>>
      [] op = "clear" -> <<CallOf("clear_rect")>>
      [] op = "text" -> <<CallOf("fill_text")>>
      [] op = "strokeStyle" -> <<CallOf("set_stroke_style")>>
      [] op = "make_stroke" -> <<CallOf("stroke")>>
      [] op = "noStroke" -> <<CallOf("set_stroke_style")>>
      [] op = "set_fill" -> <<CallOf("set_fill_style")>>
      [] op = "noFill" -> <<CallOf("set_fill_style")>>
      [] op = "draw_line" -> <<CallOf("beginShape"), CallOf("move_to"),
                               CallOf("line_to"), CallOf("make_stroke")>>
      [] op = "pushMatrix" -> <<CallOf("save")>>
      [] op = "popMatrix" -> <<CallOf("restore")>>
      [] op = "resetScale" -> <<CallOf("set_transform")>>
      [] op = "beginShape" -> <<CallOf("begin_path")>>
      [] op = "endShape" -> <<CallOf("close_path"), CallOf("fill")>>
      [] op = "vertex" -> <<MayRaise("AttributeError"), MayCall("line_to"),
                            MayCall("move_to")>>
      [] op = "draw_rect" -> <<CallOf("fill_rect")>>
      [] op = "draw_ellipse" -> <<CallOf("begin_path"), CallOf("ellipse"),
                                  CallOf("fill")>>
      [] op = "draw_arc" -> <<CallOf("set_stroke_style"), CallOf("begin_path"),
                              CallOf("move_to"), CallOf("arc"), CallOf("line_to"),
                              CallOf("fill"), CallOf("begin_path"), CallOf("arc"),
                              CallOf("make_stroke")>>
      [] OTHER -> <<>>

\* The methods PILBackend defines, and their bodies.
PilDefines ==
    {"initialize", "update_dimensions", "to_png", "get_widget",
     "update_watchers", "flush", "take_picture", "get_color", "get_style", "p",
     "draw_lines", "draw_line", "clear", "text", "pushMatrix", "popMatrix",
     "scale", "resetScale", "draw_rect", "draw_ellipse", "draw_arc",
     "beginShape", "endShape", "vertex", "translate", "rotate"}

PilBody(op) ==
    CASE op = "update_dimensions" -> <<MayCall("initialize")>>
      [] op = "get_style" -> <<MayCall("get_color")>>
      [] op = "draw_lines" -> <<MayCall("draw_line")>>
      [] op = "draw_line" -> <<CallOf("p"), CallOf("p"), CallOf("get_style")>>
      [] op = "clear" -> <<CallOf("draw_rect")>>
      [] op = "text" -> <<CallOf("p"), CallOf("get_style")>>
      [] op = "draw_rect" -> <<CallOf("p"), CallOf("get_style"), CallOf("get_style")>>
      [] op = "draw_ellipse" -> <<CallOf("p"), CallOf("get_style"), CallOf("get_style")>>
      [] op = "draw_arc" -> <<CallOf("draw_line")>>
      [] op = "endShape" -> <<MayRaise("AttributeError"), CallOf("get_style"),
                              CallOf("get_style")>>
      [] op = "vertex" -> <<MayRaise("AttributeError"), CallOf("p")>>
      [] op = "popMatrix" -> <<MayRaise("IndexError")>>
      [] op = "translate" -> <<MayRaise("IndexError")>>
      [] op = "rotate" -> <<MayRaise("IndexError")>>
      [] OTHER -> <<>>

\* The methods SVGBackend defines, and their bodies. Color has no rgb(), and
\* nothing else assigns fill_style_color.
SvgDefines ==
    {"initialize", "update_dimensions", "flush", "watch", "take_picture",
     "set_stroke_style", "set_fill_style", "fill_opacity", "stroke_opacity",
     "get_style", "arc", "clear_rect", "fill_text", "fill_rect", "fill",
     "stroke", "move_to", "line_to", "save", "restore", "translate", "scale",
     "set_transform", "rotate", "begin_path", "close_path", "ellipse",
     "get_image_data", "put_image_data", "create_image_data"}

SvgBody(op) ==
    CASE op = "set_fill_style" -> <<Raise("AttributeError")>>
      [] op = "fill_opacity" -> <<Raise("AttributeError")>>
      [] op = "stroke_opacity" -> <<MayRaise("AttributeError")>>
      [] op = "get_style" -> <<CallOf("fill_opacity"), CallOf("stroke_opacity")>>
      [] op = "arc" -> <<CallOf("get_style")>>
      [] op = "clear_rect" -> <<CallOf("initialize")>>
      [] op = "fill_text" -> <<CallOf("get_style")>>
      [] op = "fill_rect" -> <<CallOf("get_style")>>
      [] op = "fill" -> <<MayCall("get_style")>>
      [] op = "stroke" -> <<MayCall("get_style")>>
      [] op = "restore" -> <<MayRaise("IndexError")>>
      [] op = "ellipse" -> <<CallOf("get_style")>>
      [] OTHER -> <<>>

\* Python's method resolution on an object of class kind: the class's own
\* definition, else Backend's.
Defines(kind) == IF kind = "pil" THEN PilDefines ELSE SvgDefines
Resolve(kind, op) ==
    IF op \in Defines(kind)
    THEN IF kind = "pil" THEN PilBody(op) ELSE SvgBody(op)
    ELSE IF op \in BaseMethods THEN BaseBody(op)
    ELSE <<Raise("AttributeError")>>

\* The ways a call of op on a backend of class kind can end, over the
\* states of the object: "returns" or the exception raised.
RECURSIVE Ends(_, _), RunBody(_, _)
Ends(kind, op) == RunBody(kind, Resolve(kind, op))
RunBody(kind, steps) ==
    IF Len(steps) = 0 THEN {"returns"}
    ELSE LET step == Head(steps)
             rest == RunBody(kind, Tail(steps))
         IN  CASE step[1] = "raise" -> {step[2]}
               [] step[1] = "mayraise" -> {step[2]} \cup rest
               [] step[1] = "call" ->
                     LET e == Ends(kind, step[2])
                     IN  (e \ {"returns"}) \cup (IF "returns" \in e THEN rest ELSE {})
               [] step[1] = "maycall" ->
                     (Ends(kind, step[2]) \ {"returns"}) \cup rest

\* The number of calls made on one backend.
MaxCalls == 2

VocabIdle == vkind = "none" /\ vcalls = <<>>

\* backend = PILBackend(width, height, scale) or SVGBackend(...), then
\* backend.initialize()
VocabInit == vkind \in {"pil", "svg"} /\ vcalls = <<>>

\* backend.<op>(...)
Call ==
    /\ Len(vcalls) < MaxCalls
    /\ \E op \in BaseMethods : \E end \in Ends(vkind, op) :
          vcalls' = Append(vcalls, [op |-> op, end |-> end])
    /\ UNCHANGED vkind
    /\ OnlyVocab

VocabNext == Call

-----------------------------------------------------------------------------
(* backends/svg.py: SVGBackend                                             *)

\* The groups one drawing may hold, and the transforms one node may hold.
MaxGroups == 2
MaxNodeOps == 1

\* The node of the Drawing (stack[0]); groups are numbered from 1 in the
\* order dwg.g() makes them.
RootNode == 0
Nodes == RootNode..MaxGroups

\* The alpha values of the colours handed to the style setters.
Alphas == {0, 128, ByteMax}

\* element.add(child) of svgwrite: the child is appended to the element's
\* list of children.
AddChild(kids, node, child) == [kids EXCEPT ![node] = Append(@, child)]

\* SVGBackend.initialize: a new Drawing with nothing in it, on the stack.
SvgInitialize(b) ==
    [b EXCEPT !.stack = <<RootNode>>,
              !.points = <<>>,
              !.kids = [n \in Nodes |-> <<>>],
              !.xf = [n \in Nodes |-> <<>>],
              !.savedOn = [n \in Nodes |-> NoneVal],
              !.ngroups = 0]

\* SVGBackend(width, height, scale): the class attributes of Backend and the
\* fields of Backend.__init__; stroke_style_color and fill_style_color are
\* not assigned (NoneVal).
NewSvg(width, height, scale) ==
    SvgInitialize(
        [width |-> width, height |-> height, _scale |-> scale,
         line_width |-> 1, stroke_style |-> "", fill_style |-> "",
         stroke_alpha |-> NoneVal, fill_alpha |-> NoneVal,
         stack |-> <<>>, points |-> <<>>, kids |-> <<>>, xf |-> <<>>,
         savedOn |-> <<>>, ngroups |-> 0])

\* SVGBackend.update_dimensions: "No need, SVG handles this"
SvgUpdateDimensions(b, width, height, scale) == b

\* SVGBackend.set_stroke_style(color): the colour is kept as the style and
\* stroke_style_color is Color(0, 0, 0, 255) whatever the colour.
SvgSetStrokeStyle(b, alpha) ==
    [b EXCEPT !.stroke_style = <<"color", alpha>>, !.stroke_alpha = ByteMax]

\* SVGBackend.stroke_opacity(), in hundredths: round(alpha / 255, 2), or
\* None (NoneVal) for alpha 255. The caller sees to stroke_alpha being set.
SvgStrokeOpacity(b) ==
    IF b.stroke_alpha # ByteMax
    THEN Round(<<b.stroke_alpha * 100, ByteMax>>) ELSE NoneVal

\* SVGBackend.fill_opacity(), likewise.
SvgFillOpacity(b) ==
    IF b.fill_alpha # ByteMax
    THEN Round(<<b.fill_alpha * 100, ByteMax>>) ELSE NoneVal

\* SVGBackend.get_style(*items): both opacities are computed first, and
\* reading a colour attribute that was never assigned is an AttributeError.
\* The style is the set of the entries that are not empty.
SvgGetStyle(b, items) ==
    IF b.fill_alpha = NoneVal \/ b.stroke_alpha = NoneVal
    THEN [raised |-> "AttributeError", style |-> {}]
    ELSE LET fo == SvgFillOpacity(b)
             so == SvgStrokeOpacity(b)
             entry(item) ==
                 CASE item = "fill" ->
                         IF b.fill_style # "" THEN {<<"fill", b.fill_style>>} ELSE {}
                   [] item = "stroke-width" -> {<<"stroke-width", b.line_width>>}
                   [] item = "stroke" ->
                         IF b.stroke_style # "" THEN {<<"stroke", b.stroke_style>>} ELSE {}
                   [] item = "fill-opacity" ->
                         IF fo # NoneVal THEN {<<"fill-opacity", fo>>} ELSE {}
                   [] item = "stroke-opacity" ->
                         IF so # NoneVal THEN {<<"stroke-opacity", so>>} ELSE {}
         IN  [raised |-> "", style |-> UNION {entry(item) : item \in items}]

\* SVGBackend.save: the new group is added to the Drawing, stack[0], and
\* pushed. savedOn remembers the node that was on top of the stack.
SvgSave(b) ==
    LET g == b.ngroups + 1
    IN  [b EXCEPT !.kids = AddChild(@, b.stack[1], <<"g", g>>),
                  !.stack = Append(@, g),
                  !.savedOn = [@ EXCEPT ![g] = b.stack[Len(b.stack)]],
                  !.ngroups = g]

\* SVGBackend.restore: the group on top is added to the node below it and
\* popped (the caller sees to the stack holding two nodes).
SvgRestore(b) ==
    LET parent == b.stack[Len(b.stack) - 1]
        dwg == b.stack[Len(b.stack)]
    IN  [b EXCEPT !.kids = AddChild(@, parent, <<"g", dwg>>),
                  !.stack = SubSeq(@, 1, Len(@) - 1)]

\* SVGBackend.translate and rotate: the transform goes to the node on top.
SvgTransform(b, t) == [b EXCEPT !.xf[b.stack[Len(b.stack)]] = Append(@, t)]

NoCallYet == [op |-> "none", result |-> "none", arg |-> <<>>, depth0 |-> 0]
SvgCall(op, result, arg, depth0) ==
    [op |-> op, result |-> result, arg |-> arg, depth0 |-> depth0]

SvgIdle == svg = <<>> /\ slast = NoCallYet

\* backend = SVGBackend(width, height, scale); backend.initialize()
SvgInit ==
    /\ svg = NewSvg(WorldWidth, WorldHeight, 1)
    /\ slast = NoCallYet

Depth == Len(svg.stack)

\* backend.pushMatrix(), which is save()
Save ==
    /\ svg.ngroups < MaxGroups
    /\ svg' = SvgSave(svg)
    /\ slast' = SvgCall("save", "returns", <<svg.ngroups + 1>>, Depth)
    /\ OnlySvg

\* backend.popMatrix(), which is restore()
Restore ==
    /\ IF Depth < 2
       THEN /\ svg' = svg
            /\ slast' = SvgCall("restore", "IndexError", <<>>, Depth)
       ELSE /\ svg' = SvgRestore(svg)
            /\ slast' = SvgCall("restore", "returns", <<svg.stack[Depth]>>, Depth)
    /\ OnlySvg

\* backend.translate(x, y) and backend.rotate(angle)
SvgTranslate ==
    /\ Len(svg.xf[svg.stack[Depth]]) < MaxNodeOps
    /\ \E t \in {<<"translate", 2, 1>>, <<"rotate", 90>>} :
          /\ svg' = SvgTransform(svg, t)
          /\ slast' = SvgCall(t[1], "returns", t, Depth)
    /\ OnlySvg

\* backend.set_stroke_style(Color(r, g, b, alpha))
SetStrokeStyle ==
    /\ \E a \in Alphas :
          /\ svg' = SvgSetStrokeStyle(svg, a)
          /\ slast' = SvgCall("set_stroke_style", "returns", <<a>>, Depth)
    /\ OnlySvg

\* backend.set_fill_style(Color(r, g, b, alpha)): color.rgb() is the first
\* thing evaluated, and Color has no method rgb.
SetFillStyle ==
    /\ \E a \in Alphas :
          /\ svg' = svg
          /\ slast' = SvgCall("set_fill_style", "AttributeError", <<a>>, Depth)
    /\ OnlySvg

\* backend.draw_rect(x, y, width, height), which is fill_rect: the style,
\* then the rect added to the node on top.
DrawRect ==
    /\ LET st == SvgGetStyle(svg, {"fill"})
       IN  IF st.raised # ""
           THEN /\ svg' = svg
                /\ slast' = SvgCall("draw_rect", st.raised, <<>>, Depth)
           ELSE /\ svg' = [svg EXCEPT !.kids =
                              AddChild(@, svg.stack[Depth], <<"rect", st.style>>)]
                /\ slast' = SvgCall("draw_rect", "returns", <<st.style>>, Depth)
    /\ OnlySvg

\* backend.draw_line(x1, y1, x2, y2): beginShape, move_to, line_to and
\* make_stroke, which is stroke(): the style, then a line added to the node
\* on top and the points cleared.
DrawLine ==
    /\ LET b1 == [svg EXCEPT !.points = <<<<1, 1>>, <<2, 2>>>>]
           st == SvgGetStyle(b1, {"stroke", "stroke-width", "stroke-opacity"})
       IN  IF st.raised # ""
           THEN /\ svg' = b1
                /\ slast' = SvgCall("draw_line", st.raised, <<>>, Depth)
           ELSE /\ svg' = [b1 EXCEPT !.kids =
                              AddChild(@, svg.stack[Depth], <<"line", st.style>>),
                                     !.points = <<>>]
                /\ slast' = SvgCall("draw_line", "returns", <<st.style>>, Depth)
    /\ OnlySvg

\* backend.update_dimensions(width, height, scale)
SvgResize ==
    /\ \E d \in {<<WorldWidth, WorldHeight, 1>>, <<WorldWidth + 1, WorldHeight, 3>>} :
          /\ svg' = SvgUpdateDimensions(svg, d[1], d[2], d[3])
          /\ slast' = SvgCall("update_dimensions", "returns", d, Depth)
    /\ OnlySvg

\* backend.clear(), which is clear_rect(), which is initialize()
SvgClear ==
    /\ svg' = SvgInitialize(svg)
    /\ slast' = SvgCall("clear", "returns", <<>>, Depth)
    /\ OnlySvg

\* SVGBackend.arc(x, y, radius, startAngle, endAngle): a path that ends on
\* the last point and is filled when there are points, a stroked path
\* otherwise; the style is computed before the path is added.
SvgArc(b) ==
    LET styles == IF Len(b.points) > 0 THEN {"fill", "fill-opacity"}
                  ELSE {"stroke", "stroke-width"}
        st == SvgGetStyle(b, styles)
    IN  IF st.raised # ""
        THEN [raised |-> st.raised, b |-> b]
        ELSE [raised |-> "",
              b |-> [b EXCEPT !.kids =
                        AddChild(@, b.stack[Len(b.stack)], <<"path", st.style>>)]]

\* SVGBackend.fill(): a polygon of the points when there are two or more.
SvgFill(b) ==
    IF Len(b.points) >= 2
    THEN LET st == SvgGetStyle(b, {"fill"})
         IN  IF st.raised # ""
             THEN [raised |-> st.raised, b |-> b]
             ELSE [raised |-> "",
                   b |-> [b EXCEPT !.kids =
                             AddChild(@, b.stack[Len(b.stack)], <<"polygon", st.style>>),
                                   !.points = <<>>]]
    ELSE [raised |-> "", b |-> b]

\* Backend.draw_arc on the SVGBackend: the pie (set_stroke_style(BLACK),
\* move_to, arc, line_to, fill), then stroke_style put back and the arc
\* (arc, make_stroke; stroke() finds fewer than two points). An exception
\* ends the call where it is raised.
SvgDrawArc(b) ==
    LET prev_stroke_style == b.stroke_style
        b1 == [SvgSetStrokeStyle(b, ByteMax) EXCEPT !.points = <<<<1, 1>>>>]
        a1 == SvgArc(b1)
        b2 == [a1.b EXCEPT !.points = Append(@, <<1, 1>>)]
        f2 == SvgFill(b2)
        b3 == [f2.b EXCEPT !.stroke_style = prev_stroke_style]
        a3 == SvgArc(b3)
    IN  IF a1.raised # "" THEN a1
        ELSE IF f2.raised # "" THEN f2
        ELSE a3

\* backend.draw_arc(x, y, width, height, startAngle, endAngle)
DrawArc ==
    /\ LET r == SvgDrawArc(svg)
       IN  /\ svg' = r.b
           /\ slast' = SvgCall("draw_arc",
                               IF r.raised # "" THEN r.raised ELSE "returns",
                               <<svg.stroke_style>>, Depth)
    /\ OnlySvg

SvgNext ==
    \/ Save \/ Restore \/ SvgTranslate \/ SetStrokeStyle \/ SetFillStyle
    \/ DrawRect \/ DrawLine \/ DrawArc \/ SvgResize \/ SvgClear

-----------------------------------------------------------------------------
(* world.py: World.steps, World.step, no_interrupt and the SIGINT handler   *)

\* The largest number of steps asked for, and of interrupts that arrive.
MaxSteps == 2
MaxInterrupts == 2

\* Where the call of steps is: "out" (not in steps), then
\*   "enter"    no_interrupt: before self.stop = False
\*   "install"  before signal.signal(SIGINT, self.signal_handler)
\*   "loop"     at the head of the for loop
\*   "robots"   in step(): the robot.step calls
\*   "advance"  before self.time += time_step
\*   "update"   before self.update(show) and the sleep
\*   "function" before the call of function
\*   "restore"  the finally clause, before signal.signal(SIGINT, DEFAULT_HANDLER)
\*   "print"    before print("Simulation stopped at:", ...)
InTry == {"loop", "robots", "advance", "update", "function"}

NoRun ==
    [pc |-> "out", stop |-> FALSE, handler |-> "default", todo |-> 0,
     step |-> 0, r |-> 0, time |-> 0, finished |-> 0, pending |-> "",
     result |-> "none", nint |-> 0, stopAt |-> -1, killedAt |-> ""]

StepsIdle == sim = NoRun

\* World.init(): self.stop = False; the handler of SIGINT is Python's own,
\* DEFAULT_HANDLER, which raises KeyboardInterrupt.
StepsInit == sim = NoRun

\* world.steps(n)
CallSteps ==
    /\ sim.pc = "out" /\ sim.result = "none"
    /\ \E n \in 1..MaxSteps : sim' = [sim EXCEPT !.pc = "enter", !.todo = n]
    /\ OnlySteps

\* no_interrupt: self.stop = False
EnterBlock ==
    /\ sim.pc = "enter"
    /\ sim' = [sim EXCEPT !.stop = FALSE, !.pc = "install"]
    /\ OnlySteps

\* no_interrupt: signal.signal(signal.SIGINT, self.signal_handler)
InstallHandler ==
    /\ sim.pc = "install"
    /\ sim' = [sim EXCEPT !.handler = "world", !.pc = "loop"]
    /\ OnlySteps

\* The head of the loop without "if self.stop: break".
LoopHeadNoStop ==
    /\ sim.pc = "loop"
    /\ sim' = IF sim.step >= sim.todo
              THEN [sim EXCEPT !.pc = "restore"]
              ELSE [sim EXCEPT !.step = @ + 1, !.r = 0, !.pc = "robots"]
    /\ OnlySteps

\* "for step in range(steps): if self.stop: break"; otherwise step() begins.
LoopHead ==
    /\ sim.pc = "loop"
    /\ sim' = IF sim.step >= sim.todo \/ sim.stop
              THEN [sim EXCEPT !.pc = "restore"]
              ELSE [sim EXCEPT !.step = @ + 1, !.r = 0, !.pc = "robots"]
    /\ OnlySteps

\* step(): "for robot in self._robots: robot.step(time_step)"; a robot's
\* step may raise.
RobotStep ==
    /\ sim.pc = "robots"
    /\ \/ sim' = [sim EXCEPT !.r = @ + 1,
                             !.pc = IF sim.r + 1 = NRobots THEN "advance" ELSE "robots"]
       \/ sim' = [sim EXCEPT !.pending = "Exception", !.pc = "restore"]
    /\ OnlySteps

\* step(): self.time += time_step
Advance ==
    /\ sim.pc = "advance"
    /\ sim' = [sim EXCEPT !.time = @ + 1, !.pc = "update"]
    /\ OnlySteps

\* step(): self.update(show) (the robots' and their cameras' update, the
\* drawing) and the sleep; step() returns.
UpdateWorld ==
    /\ sim.pc = "update"
    /\ sim' = [sim EXCEPT !.finished = @ + 1, !.pc = "function"]
    /\ OnlySteps

\* "if function is not None: ... if stop: break"
CallFunction ==
    /\ sim.pc = "function"
    /\ \E stop \in BOOLEAN :
          sim' = [sim EXCEPT !.pc = IF stop THEN "restore" ELSE "loop"]
    /\ OnlySteps

\* no_interrupt's finally: signal.signal(signal.SIGINT, DEFAULT_HANDLER);
\* an exception on its way goes on out of steps.
RestoreHandler ==
    /\ sim.pc = "restore"
    /\ sim' = IF sim.pending # ""
              THEN [sim EXCEPT !.handler = "default", !.pc = "out",
                               !.result = sim.pending]
              ELSE [sim EXCEPT !.handler = "default", !.pc = "print"]
    /\ OnlySteps

\* print("Simulation stopped at:", round(self.time, 1)); steps returns.
PrintStopped ==
    /\ sim.pc = "print"
    /\ sim' = [sim EXCEPT !.pc = "out", !.result = "returned"]
    /\ OnlySteps

\* SIGINT arrives while steps is running. With signal_handler installed the
\* handler runs (self.stop = True) and the interrupted code goes on; with
\* DEFAULT_HANDLER, KeyboardInterrupt is raised where the code is.
Interrupt ==
    /\ sim.pc # "out"
    /\ sim.nint < MaxInterrupts
    /\ sim' = IF sim.handler = "world"
              THEN [sim EXCEPT !.stop = TRUE, !.nint = @ + 1,
                               !.stopAt = IF @ = -1 THEN sim.step ELSE @]
              ELSE IF sim.pc \in InTry
              THEN [sim EXCEPT !.nint = @ + 1, !.killedAt = sim.pc,
                               !.pending = "KeyboardInterrupt", !.pc = "restore"]
              ELSE [sim EXCEPT !.nint = @ + 1, !.killedAt = sim.pc,
                               !.pc = "out", !.result = "KeyboardInterrupt"]
    /\ OnlySteps

StepsNext ==
    \/ CallSteps \/ EnterBlock \/ InstallHandler \/ LoopHead \/ RobotStep
    \/ Advance \/ UpdateWorld \/ CallFunction \/ RestoreHandler \/ PrintStopped
    \/ Interrupt

-----------------------------------------------------------------------------
(* backends/base.py: Backend.__enter__ and Backend.__exit__                 *)

\* The deepest nesting of with-blocks and the most blocks entered, for each
\* backend.
MaxNest == 3
MaxEnters == 4

BackendKinds == {"pil", "svg"}

\* Backend.__init__: caching and orig_caching are False. depth, enters,
\* exits, flushes and before (caching before the outermost entry) are kept
\* for the properties.
NewContext ==
    [caching |-> FALSE, orig_caching |-> FALSE, depth |-> 0, enters |-> 0,
     exits |-> 0, flushes |-> 0, before |-> FALSE]

CtxIdle == ctx = <<>>

\* One PILBackend and one SVGBackend.
CtxInit == ctx = [k \in BackendKinds |-> NewContext]

\* "with backend:" begins: __enter__
Enter ==
    /\ \E k \in BackendKinds :
          /\ ctx[k].depth < MaxNest
          /\ ctx[k].enters < MaxEnters
          /\ ctx' = [ctx EXCEPT ![k] =
                        [@ EXCEPT !.orig_caching = ctx[k].caching,
                                  !.caching = TRUE,
                                  !.depth = @ + 1,
                                  !.enters = @ + 1,
                                  !.before = IF ctx[k].depth = 0
                                             THEN ctx[k].caching ELSE @]]
    /\ OnlyCtx

\* The block ends: __exit__ calls flush() (which does nothing on either
\* backend) and sets caching to False unless orig_caching is set.
Exit ==
    /\ \E k \in BackendKinds :
          /\ ctx[k].depth > 0
          /\ ctx' = [ctx EXCEPT ![k] =
                        [@ EXCEPT !.flushes = @ + 1,
                                  !.caching = IF ~ctx[k].orig_caching THEN FALSE ELSE @,
                                  !.depth = @ - 1,
                                  !.exits = @ + 1]]
    /\ OnlyCtx

CtxNext == Enter \/ Exit

-----------------------------------------------------------------------------
(* The specifications                                                      *)

InitColor == ColorInit /\ WorldIdle /\ PilIdle /\ PicIdle /\ CamIdle /\ VocabIdle /\ SvgIdle
               /\ StepsIdle /\ CtxIdle
InitWorld == ColorIdle /\ WorldInit /\ PilIdle /\ PicIdle /\ CamIdle /\ VocabIdle /\ SvgIdle
               /\ StepsIdle /\ CtxIdle
InitPIL   == ColorIdle /\ WorldIdle /\ PilInit /\ PicIdle /\ CamIdle /\ VocabIdle /\ SvgIdle
               /\ StepsIdle /\ CtxIdle
InitPic   == ColorIdle /\ WorldIdle /\ PilIdle /\ PicInit /\ CamIdle /\ VocabIdle /\ SvgIdle
               /\ StepsIdle /\ CtxIdle
InitJson  == ColorIdle /\ WorldIdle /\ PilIdle /\ PicIdle /\ JsonInit /\ VocabIdle /\ SvgIdle
               /\ StepsIdle /\ CtxIdle
InitCam   == ColorIdle /\ WorldIdle /\ PilIdle /\ PicIdle /\ CamInit /\ VocabIdle /\ SvgIdle
               /\ StepsIdle /\ CtxIdle
InitLoose == ColorIdle /\ WorldIdle /\ PilIdle /\ PicIdle /\ LooseInit /\ VocabIdle /\ SvgIdle
               /\ StepsIdle /\ CtxIdle
InitVocab == ColorIdle /\ WorldIdle /\ PilIdle /\ PicIdle /\ CamIdle /\ VocabInit /\ SvgIdle
               /\ StepsIdle /\ CtxIdle
InitSVG   == ColorIdle /\ WorldIdle /\ PilIdle /\ PicIdle /\ CamIdle /\ VocabIdle /\ SvgInit
               /\ StepsIdle /\ CtxIdle
InitSteps == ColorIdle /\ WorldIdle /\ PilIdle /\ PicIdle /\ CamIdle /\ VocabIdle /\ SvgIdle
               /\ StepsInit /\ CtxIdle
InitCtx   == ColorIdle /\ WorldIdle /\ PilIdle /\ PicIdle /\ CamIdle /\ VocabIdle /\ SvgIdle
               /\ StepsIdle /\ CtxInit

SpecColor == InitColor /\ [][ColorNext]_vars
SpecWorld == InitWorld /\ [][WorldNext]_vars
SpecDraw  == InitWorld /\ [][DrawNext]_vars
SpecPIL   == InitPIL /\ [][PilNext]_vars
SpecPic   == InitPic /\ [][PicNext]_vars
SpecJson  == InitJson /\ [][JsonNext]_vars
SpecCam   == InitCam /\ [][CamNext]_vars
SpecLoose == InitLoose /\ [][LooseNext]_vars
SpecVocab == InitVocab /\ [][VocabNext]_vars
SpecSVG   == InitSVG /\ [][SvgNext]_vars
SpecSteps == InitSteps /\ [][StepsNext]_vars
SpecCtx   == InitCtx /\ [][CtxNext]_vars

-----------------------------------------------------------------------------
(* Claims                                                                  *)

\* C1 (SpecColor): for every 8-bit r, g, b, a, the Color built from the
\* to_hexcode() of Color(r, g, b, a) has red, green, blue, alpha = r, g, b, a.
C1_HexRoundTrip ==
    cstage = "parsed" => <<cout.red, cout.green, cout.blue, cout.alpha>> = cin

\* A colour with a channel below 16 (a padded digit) has made the round trip.
C1_Witness ==
    /\ cstage = "parsed"
    /\ cin = <<10, 9, 255, 16>>
    /\ chex = <<"#", "0", "A", "0", "9", "F", "F", "1", "0">>

\* The robots whose hits the obstacle pass admitted in column i.
AdmittedRobots(i) == {pout[i].bands[k].robot : k \in 1..Len(pout[i].bands)}

\* The nearest wall of a column is its hit number w.
NearestWall(h, w) ==
    /\ IsWall(h[w])
    /\ \A v \in 1..Len(h) : IsWall(h[v]) => h[w].distance <= h[v].distance

\* C2 (SpecPic): in a column whose hits (farthest first, as cast_ray returns
\* them) hold a wall and two robot hits A and B with A.distance <
\* wall.distance < B.distance, take_picture draws the band of A and not the
\* band of B.
C2_Occlusion ==
    \A i \in 1..Len(pout) :
       \A a, w, b \in 1..Len(pin.hits[i]) :
          LET h == pin.hits[i]
          IN  (/\ NearestWall(h, w)
               /\ IsObstacle(h[a]) /\ IsObstacle(h[b])
               /\ h[a].distance < h[w].distance
               /\ h[w].distance < h[b].distance)
              => /\ h[a].robot \in AdmittedRobots(i)
                 /\ h[b].robot \notin AdmittedRobots(i)

\* C3 (SpecWorld): add_robot of a robot that is already in the robot list is
\* rejected: the robot list and the walls list are as before the call.
C3_DuplicateRejected ==
    (wlast.op = "add_robot" /\ wlast.known)
        => /\ robots = wlast.robots0
           /\ walls = wlast.walls0
           /\ wlast.printed

\* A robot was added a second time, after another robot and a box.
C3_Witness ==
    /\ wlast.op = "add_robot" /\ wlast.known
    /\ Len(robots) = 2
    /\ NBoxes >= 1

\* The mapping p with no transform in force.
PlainMap == [pt \in TestPoints |-> <<pt[1] * backend._scale, pt[2] * backend._scale>>]

\* C4 (SpecPIL): after a popMatrix the mapping p is the one that was in force
\* right before the matching pushMatrix, and with every frame popped a point
\* is rasterized where it is with no transform.
C4_PopRestores ==
    /\ plast.op = "popMatrix" => PMap = plast.mark
    /\ Len(matrix) = 0 => PMap = PlainMap

\* A frame holding a rotation and a translation was popped off a frame that
\* itself transforms.
C4_Witness ==
    /\ plast.op = "popMatrix"
    /\ Len(plast.dropped) = 2
    /\ plast.dropped[1].op # plast.dropped[2].op
    /\ Len(matrix) = 1
    /\ PMap # PlainMap

\* C5 (SpecJson): to_json() of a camera, loaded with from_json() into a fresh
\* Camera and serialized again, gives the same dictionary, field for field.
C5_JsonRoundTrip ==
    Len(jsons) = 2 => jsons[2] = jsons[1]

\* The round trip of a camera whose angle in degrees is not the float it was
\* built with (the conversion to radians and back has rounded).
C5_Witness ==
    /\ Len(jsons) = 2
    /\ jsons[1].angle # clast.angle
    /\ jsons[1].width = 2
    /\ jsons[1].max_range = 3
    /\ ~jsons[1].reflectGround

\* Every distance with the s and sc that take_picture computed for it: for
\* the wall of each column and for each admitted obstacle.
Shades ==
    {<<pout[i].wall.distance, pout[i].wall.s, pout[i].wall.sc>> :
        i \in {n \in 1..Len(pout) : pout[n].wall.found}}
    \cup UNION {{<<pout[i].bands[k].distance, pout[i].bands[k].s, pout[i].bands[k].sc>> :
                    k \in 1..Len(pout[i].bands)} : i \in 1..Len(pout)}

InUnit(x) == RLeq(RZero, x) /\ RLeq(x, ROne)

\* C6 as claimed (SpecPic): s and sc lie in [0, 1], are 1 at distance 0 and
\* are 0 whenever distance >= worldSize.
C6_FadeAsClaimed ==
    \A t \in Shades :
       /\ InUnit(t[2]) /\ InUnit(t[3])
       /\ t[1] = 0 => (REq(t[2], ROne) /\ REq(t[3], ROne))
       /\ t[1] >= WorldSize(pin.c) => (REq(t[2], RZero) /\ REq(t[3], RZero))

\* C6 amended (SpecPic): s and sc lie in [0, 1], are 1 at distance 0, and
\* are 0 whenever distance * fade factor >= worldSize (s with
\* sizeFadeWithDistance, sc with colorsFadeWithDistance).
C6_FadeClamped ==
    \A t \in Shades :
       /\ InUnit(t[2]) /\ InUnit(t[3])
       /\ t[1] = 0 => (REq(t[2], ROne) /\ REq(t[3], ROne))
       /\ t[1] * pin.c.sizeFade[1] >= WorldSize(pin.c) * pin.c.sizeFade[2]
              => REq(t[2], RZero)
       /\ t[1] * pin.c.colorFade[1] >= WorldSize(pin.c) * pin.c.colorFade[2]
              => REq(t[3], RZero)

\* A wall beyond worldSize, seen with a size fade of 1/2 (s > 0) and a
\* colour fade of 1 (sc = 0).
C6_Witness ==
    /\ Len(pout) = 1
    /\ pout[1].wall.found
    /\ pout[1].wall.distance > WorldSize(pin.c)
    /\ pin.c.sizeFade = <<1, 2>> /\ pin.c.colorFade = <<1, 1>>
    /\ RLess(RZero, pout[1].wall.s)
    /\ REq(pout[1].wall.sc, RZero)

\* s is strictly between its clamp bounds.
Unclamped(x) == RLess(RZero, x) /\ RLess(x, ROne)

\* Two columns of one picture with walls at distances d1 < d2.
WallPairs ==
    {q \in (1..Len(pout)) \X (1..Len(pout)) :
        /\ pout[q[1]].wall.found /\ pout[q[2]].wall.found
        /\ pout[q[1]].wall.distance < pout[q[2]].wall.distance}

\* C7 as claimed (SpecPic): for wall distances d1 < d2, s and the horizon
\* (1 - s) * H / 2 computed for d2 are at most those for d1, and less when
\* neither s is at a clamp bound.
C7_HorizonAsClaimed ==
    \A q \in WallPairs :
       LET near == pout[q[1]].wall
           far  == pout[q[2]].wall
       IN  /\ RLeq(far.s, near.s)
           /\ RLeq(far.high, near.high)
           /\ (Unclamped(near.s) /\ Unclamped(far.s))
                  => (RLess(far.s, near.s) /\ RLess(far.high, near.high))

\* C7 amended (SpecPic): for wall distances d1 < d2, s for d2 is at most s
\* for d1 and the horizon (1 - s) * H / 2 for d2 is at least that for d1
\* (the wall band shrinks); both strictly when neither s is at a clamp bound.
C7_HorizonMonotone ==
    \A q \in WallPairs :
       LET near == pout[q[1]].wall
           far  == pout[q[2]].wall
       IN  /\ RLeq(far.s, near.s)
           /\ RLeq(near.high, far.high)
           /\ (Unclamped(near.s) /\ Unclamped(far.s))
                  => (RLess(far.s, near.s) /\ RLess(near.high, far.high))

\* Two columns with walls at different distances, neither s clamped.
C7_Witness ==
    /\ Len(pout) = 2
    /\ <<1, 2>> \in WallPairs
    /\ Unclamped(pout[1].wall.s) /\ Unclamped(pout[2].wall.s)

\* A depth picture, reflectSky off, of columns that see walls only.
DepthOfWalls ==
    /\ Len(pout) > 0
    /\ pin.c.type = "depth" /\ ~pin.c.reflectSky
    /\ \A i \in 1..Len(pin.hits) :
          /\ Len(pin.hits[i]) > 0
          /\ \A k \in 1..Len(pin.hits[i]) : IsWall(pin.hits[i][k])

\* The distance D of the nearest wall of column i.
NearestDist(i) ==
    CHOOSE d \in Distances :
       \E w \in 1..Len(pin.hits[i]) : NearestWall(pin.hits[i], w) /\ pin.hits[i][w].distance = d

\* clamp(1 - D / worldSize * f, 0, 1), from the claim's own formula.
ClaimedRatio(D, f) ==
    LET x == <<WorldSize(pin.c) * f[2] - D * f[1], WorldSize(pin.c) * f[2]>>
    IN  IF x[1] < 0 THEN RZero ELSE IF x[1] > x[2] THEN ROne ELSE x

\* Row j of the column is above the horizon (1 - s) * H / 2, or in the wall
\* band between the horizon and its mirror image.
SkyRow(i, j) ==
    LET s == ClaimedRatio(NearestDist(i), pin.c.sizeFade)
    IN  2 * j * s[2] < (s[2] - s[1]) * pin.c.H
WallRow(i, j) ==
    LET s == ClaimedRatio(NearestDist(i), pin.c.sizeFade)
    IN  /\ ~SkyRow(i, j)
        /\ 2 * j * s[2] < 2 * pin.c.H * s[2] - (s[2] - s[1]) * pin.c.H

\* C8 as claimed (SpecPic): in a depth picture of walls at distance D, every
\* wall-band pixel has red = 255 * clamp(1 - D / worldSize, 0, 1) and every
\* sky-band pixel has red = 0.
C8_DepthAsClaimed ==
    DepthOfWalls =>
       \A i \in 1..Len(pout) : \A j \in 0..(pin.c.H - 1) :
          LET r == ClaimedRatio(NearestDist(i), ROne)
          IN  /\ WallRow(i, j) => pout[i].pixels[j][1] * r[2] = ByteMax * r[1]
              /\ SkyRow(i, j) => pout[i].pixels[j][1] = 0

\* C8 amended (SpecPic): every wall-band pixel has red =
\* int(255 * clamp(1 - D / worldSize, 0, 1)), the product cut to a whole
\* number, and every sky-band pixel has red = 0.
C8_DepthTruncated ==
    DepthOfWalls =>
       \A i \in 1..Len(pout) : \A j \in 0..(pin.c.H - 1) :
          LET r == ClaimedRatio(NearestDist(i), ROne)
          IN  /\ WallRow(i, j) => pout[i].pixels[j][1] = (ByteMax * r[1]) \div r[2]
              /\ SkyRow(i, j) => pout[i].pixels[j][1] = 0

\* A depth picture of a wall at distance 1 in a world of size 4, with a sky
\* row and a wall row: 255 * 3 / 4 is no whole number.
C8_Witness ==
    /\ DepthOfWalls
    /\ Len(pout) = 1
    /\ NearestDist(1) = 1
    /\ Len(pin.hits[1]) = 2
    /\ SkyRow(1, 0) /\ WallRow(1, 1)
    /\ pout[1].pixels[1][1] = 191

\* C9 (SpecCam): set_fov, set_size and from_json with any subset of the
\* options leave every column's hit sequence empty.
C9_RetuneClears ==
    clast.op \in {"set_fov", "set_size", "from_json"}
        => \A i \in 1..Len(cam.hits) : cam.hits[i] = <<>>

\* The hits that a request made now must work from.
FreshHits == [i \in 1..cam.cameraShape[1] |-> cast_ray(scene, i - 1, UpdateRange)]

\* C10 (SpecCam): Camera.update leaves the hit buffer as it was, and every
\* picture take_picture or get_point_cloud returns is the picture of the
\* hits of all the columns cast from the robot's pose and the world's
\* geometry at the time of the request; a request on a hit buffer with an
\* entry for every column always returns one.
C10_LazyAndFresh ==
    /\ clast.op = "update" => cam.hits = clast.hits0
    /\ clast.op \in {"take_picture", "get_point_cloud"} =>
          /\ Len(cam.hits) >= cam.cameraShape[1] => clast.result # "IndexError"
          /\ clast.result # "IndexError" =>
                /\ Shown(cam) = FreshHits
                /\ cam.time = wtime
                /\ \A k \in 1..Len(clast.pics) :
                      clast.pics[k].cols =
                          take_picture(Settings(cam, clast.pics[k].type), FreshHits)

\* A picture of two columns taken after the robot moved, the clock ran and
\* a box was added; and a tick that found hits stored.
C10_Witness ==
    /\ clast.result = "picture"
    /\ cam.cameraShape[1] = 2
    /\ scene.box /\ scene.x = 1 /\ wtime = 1
    /\ Len(clast.pics[1].cols) = 2

\* The steps that are a take_picture or a get_point_cloud call.
IsRequest == clast'.op \in {"take_picture", "get_point_cloud"}

\* The configuration fields of a camera.
ConfigOf(c) ==
    <<c.cameraShape, c.angle, c.colorsFadeWithDistance, c.sizeFadeWithDistance,
      c.reflectGround, c.reflectSky, c.max_range>>

\* C11 as claimed (SpecCam): a take_picture or get_point_cloud call changes
\* no camera state: the hit buffer, the timestamp and every configuration
\* field are after the call what they were before it.
C11_PureRead == [][IsRequest => cam' = cam]_vars

\* C11 amended (SpecCam): a take_picture or get_point_cloud call changes no
\* configuration field and not the length of the hit buffer; it sets the
\* timestamp to the world's time and replaces the hit sequence of every
\* column below the width with the ray cast at the call.
C11_ConfigKept ==
    [][IsRequest =>
          /\ ConfigOf(cam') = ConfigOf(cam)
          /\ Len(cam'.hits) = Len(cam.hits)
          /\ cam'.time = wtime
          /\ \A i \in 1..Len(cam.hits) :
                cam'.hits[i] = IF i <= cam.cameraShape[1]
                               THEN cast_ray(scene, i - 1, UpdateRange)
                               ELSE cam.hits[i]]_vars

\* A picture was taken after the clock ran: the camera's timestamp and its
\* hit buffer are no longer those of the camera as built.
C11_Witness ==
    /\ clast.op = "take_picture" /\ clast.result = "picture"
    /\ wtime = 1 /\ cam.time = 1
    /\ cam.cameraShape[1] = 2
    /\ \A i \in 1..2 : cam.hits[i] # <<>>

\* The drawing vocabulary of the claim, by method name.
Vocabulary ==
    {"set_stroke_style", "set_fill_style", "strokeStyle", "set_fill",
     "lineWidth", "set_font", "beginShape", "vertex", "endShape", "draw_rect",
     "draw_ellipse", "draw_arc", "draw_line", "text", "pushMatrix",
     "popMatrix", "translate", "rotate", "clear", "update_dimensions",
     "get_image_data", "take_picture"}

\* C12 (SpecVocab): on a PILBackend and on an SVGBackend no call of the
\* drawing vocabulary ends in Backend's NotImplementedError, and a call that
\* does end in it is of a method that neither class defines.
C12_VocabularyImplemented ==
    \A k \in 1..Len(vcalls) :
       /\ vcalls[k].op \in Vocabulary => vcalls[k].end # "NotImplementedError"
       /\ vcalls[k].end = "NotImplementedError"
             => vcalls[k].op \notin (PilDefines \cup SvgDefines)

\* C13 (SpecLoose): watch, take_picture and get_point_cloud on a camera
\* that has no robot, or whose robot is in no world, return None and do
\* not raise.
C13_LooseQueryReturnsNone ==
    (clast.op \in {"watch", "take_picture", "get_point_cloud"} /\ ~HasWorld)
        => clast.result = "None"

\* C14 (SpecPic): a column whose hits hold no hit of height 1.0 is painted
\* as sky from top to bottom: each of its H pixels has the sky colour of
\* the picture's type.
C14_NoWallIsSky ==
    \A i \in 1..Len(pout) :
       ~pout[i].wall.found =>
          \A j \in 0..(pin.c.H - 1) : pout[i].pixels[j] = SkyPixel(pin.c, j)

\* C15 (SpecCam): the rays of _update are cast with the camera's max_range
\* as the maximum distance: no stored hit is farther than max_range.
C15_HitsWithinRange ==
    \A i \in 1..Len(cam.hits) : \A k \in 1..Len(cam.hits[i]) :
       cam.hits[i][k].distance <= cam.max_range

\* C16 (SpecSVG): after update_dimensions(width, height, scale) returns, the
\* stack holds no group opened before the call, and the width, the height and
\* the scale of the backend are the ones that were passed.
C16_ResizeResets ==
    slast.op = "update_dimensions" =>
       /\ Depth = 1
       /\ <<svg.width, svg.height, svg._scale>> = slast.arg

\* The number of times node n holds the group g as a child.
Occurrences(n, g) ==
    Cardinality({k \in 1..Len(svg.kids[n]) : svg.kids[n][k] = <<"g", g>>})

\* C17 (SpecSVG): when restore() returns, the group it closed is in the scene
\* graph exactly once, as a child of the node that was on top of the stack at
\* its save(), and the stack is one shorter than before the restore().
C17_GroupOnceUnderParent ==
    (slast.op = "restore" /\ slast.result = "returns") =>
       LET g == slast.arg[1]
       IN  /\ \A n \in Nodes :
                Occurrences(n, g) = IF n = svg.savedOn[g] THEN 1 ELSE 0
           /\ Depth = slast.depth0 - 1

\* The opacity entry the style of an element carries for a colour of the
\* given alpha: round(alpha / 255, 2) in hundredths, none for alpha 255.
OpacityEntry(key, alpha) ==
    IF alpha < ByteMax THEN {<<key, Round(<<alpha * 100, ByteMax>>)>>} ELSE {}

\* C18 (SpecSVG): a line stroked after a stroke colour was set is emitted, and
\* its style carries the stroke opacity of that colour's alpha: round(alpha /
\* 255, 2) for alpha < 255, no entry for alpha 255.
C18_OpacityFromAlpha ==
    (slast.op = "draw_line" /\ svg.stroke_style # "") =>
       /\ slast.result = "returns"
       /\ {e \in slast.arg[1] : e[1] = "stroke-opacity"}
             = OpacityEntry("stroke-opacity", svg.stroke_style[2])

\* Whether the fill pass, respectively the border pass, drew the wall i.
Filled(i) == \E k \in 1..Len(wlast.filled) : wlast.filled[k].wall = i
Stroked(i) == \E k \in 1..Len(wlast.stroked) : wlast.stroked[k] = i

\* C19 (SpecDraw): in force_draw a static wall of one line is drawn by the
\* border pass and not by the fill pass, a static wall of two or more lines
\* is drawn by the fill pass, and a wall that has a robot is not drawn by the
\* fill pass.
C19_WallPasses ==
    wlast.op = "force_draw" =>
       \A i \in 1..Len(walls) :
          /\ (walls[i].robot = NoRobot /\ Len(walls[i].lines) = 1) =>
                Stroked(i) /\ ~Filled(i)
          /\ (walls[i].robot = NoRobot /\ Len(walls[i].lines) >= 2) => Filled(i)
          /\ walls[i].robot # NoRobot => ~Filled(i)

\* The frames applied in reverse chronological order: the frame pushed last
\* first, the frame pushed first last.
RECURSIVE InnermostFirst(_, _)
InnermostFirst(frames, pt) ==
    IF Len(frames) = 0 THEN pt
    ELSE InnermostFirst(SubSeq(frames, 1, Len(frames) - 1),
                        ApplyFrame(frames[Len(frames)], pt))

\* C20 (SpecPIL): with two or more open frames, p maps a coordinate by
\* applying the frames innermost first and outermost last (within a frame the
\* most recent transform first; translate adds its offsets, rotate turns the
\* point about the origin), and scales the result.
C20_InnermostFrameFirst ==
    Len(matrix) >= 2 =>
       \A pt \in TestPoints :
          LET q == InnermostFirst(matrix, pt)
          IN  PMap[pt] = <<q[1] * backend._scale, q[2] * backend._scale>>

\* C21 (SpecSVG): draw_arc fills the pie and strokes the arc and returns, and
\* the stroke colour of the backend is then the one it was before the call.
C21_ArcKeepsStroke ==
    slast.op = "draw_arc" =>
       /\ slast.result = "returns"
       /\ svg.stroke_style = slast.arg[1]

\* The depth picture of the last get_point_cloud, and the pixel a point of
\* the cloud was made from: x = W - 1 - point[0], y = H - 1 - point[1].
DepthCols == clast.pics[1].cols
PixelOf(pt) == <<Len(DepthCols) - 1 - pt[1], cam.cameraShape[2] - 1 - pt[2]>>

\* The pixels of the depth picture whose value is not 255.
NotFar ==
    {q \in (0..(Len(DepthCols) - 1)) \X (0..(cam.cameraShape[2] - 1)) :
        DepthCols[q[1] + 1].pixels[q[2]][1] # ByteMax}

\* Whether the pixel q of the depth picture is a sky pixel (a row above the
\* wall of its column), respectively a pixel nothing was painted on.
IsSky(q) ==
    /\ DepthCols[q[1] + 1].wall.found
    /\ RLess(<<2 * q[2], 1>>, DepthCols[q[1] + 1].wall.high)
    /\ DepthCols[q[1] + 1].pixels[q[2]] = SkyPixel(Settings(cam, "depth"), q[2])
IsUnpainted(q) == DepthCols[q[1] + 1].pixels[q[2]] = Blank

\* C22 (SpecCam): get_point_cloud returns one point for each pixel whose depth
\* value is not 255, and no point is made from a sky pixel or from a pixel
\* that was not painted.
C22_CloudLeavesSkyOut ==
    (clast.op = "get_point_cloud" /\ clast.result = "points") =>
       /\ {PixelOf(clast.points[k]) : k \in 1..Len(clast.points)} = NotFar
       /\ Len(clast.points) = Cardinality(NotFar)
       /\ \A k \in 1..Len(clast.points) :
             /\ ~IsSky(PixelOf(clast.points[k]))
             /\ ~IsUnpainted(PixelOf(clast.points[k]))

\* C26 (SpecCtx): over nested with-blocks on a backend, flush is called once
\* at each exit, caching is true inside every block, and once the outermost
\* block has exited caching is what it was before that block was entered.
C26_CachingRestored ==
    \A k \in BackendKinds :
       /\ ctx[k].flushes = ctx[k].exits
       /\ ctx[k].depth > 0 => ctx[k].caching
       /\ (ctx[k].depth = 0 /\ ctx[k].exits > 0) => ctx[k].caching = ctx[k].before

\* What steps keeps whenever an interrupt set the stop flag: every step that
\* was begun has run to completion when steps returns, with the time advanced
\* once per step; no step is begun after the flag was set; and out of steps
\* the default handler is installed.
StepsOrderly ==
    /\ sim.pc = "out" => sim.handler = "default"
    /\ sim.result = "returned" =>
          sim.finished = sim.step /\ sim.time = sim.step
    /\ sim.stopAt >= 0 => sim.step <= sim.stopAt /\ sim.stop

Xs(rect) == {rect[k][1] : k \in 1..Len(rect)}
Ys(rect) == {rect[k][2] : k \in 1..Len(rect)}
CoversImage(rect) ==
    /\ \E x \in Xs(rect) : x <= 0
    /\ \E x \in Xs(rect) : x >= backend.width * backend._scale - 1
    /\ \E y \in Ys(rect) : y <= 0
    /\ \E y \in Ys(rect) : y >= backend.height * backend._scale - 1

\* C24 (SpecPIL): the rectangle clear() paints covers the whole device image,
\* whatever frames are open and whatever the scale.
C24_ClearCoversImage == plast.op = "clear" => CoversImage(plast.rect)

\* C25 (SpecCam): whatever set_fov, set_size and from_json calls were made,
\* the hit buffer has one entry for each pixel column, and no _update fails
\* on an index.
C25_HitsMatchWidth ==
    /\ Len(cam.hits) = cam.cameraShape[1]
    /\ clast.result # "IndexError"

\* C27 (SpecPic): every row of the band of an admitted hit lies within the
\* picture, 0 <= row <= H - 1.
C27_BandRowsInPicture ==
    \A i \in 1..Len(pout) : \A k \in 1..Len(pout[i].bands) :
       pout[i].bands[k].rows \subseteq 0..(pin.c.H - 1)

\* A tall robot farther away than the world is wide, at full size and fully
\* faded: its band of two rows ends on the top row of the picture.
C27_Witness ==
    /\ Len(pout) = 1 /\ Len(pout[1].bands) = 1
    /\ pout[1].bands[1].distance > WorldSize(pin.c)
    /\ pout[1].bands[1].height = 2
    /\ pout[1].bands[1].rows = {0, 1}

\* The walls of the list that the robot r owns.
WallsOf(r) == {i \in 1..Len(walls) : walls[i].robot = r}

\* C28 (SpecWorld): whatever add_robot and add_wall calls were made, no robot
\* is in the robot list twice, every listed robot owns exactly one wall of
\* the walls list, no wall is owned by a robot that is not listed, and every
\* listed robot's world is this world.
C28_RobotsAndWalls ==
    /\ \A i, j \in 1..Len(robots) : robots[i] = robots[j] => i = j
    /\ \A i \in 1..Len(robots) :
          /\ Cardinality(WallsOf(robots[i])) = 1
          /\ rworld[robots[i]] = "world"
    /\ \A i \in 1..Len(walls) :
          walls[i].robot # NoRobot => InRobots(walls[i].robot, robots)

\* Every robot is listed, one of them was added again in the last call, and
\* the world has its boundary walls and a box.
C28_Witness ==
    /\ \A r \in RobotIds : InRobots(r, robots)
    /\ wlast.op = "add_robot" /\ wlast.printed
    /\ Len(walls) = 4 + 1 + NRobots

=============================================================================
